---------------------------- MODULE Spec2Model ----------------------------
(***************************************************************************)
(* Model of the checkpointed query-generation workflow (SQLAgent and its   *)
(* three HTTP phases) and of the conversational memory subsystem           *)
(* (ConversationMemory, MemoryManager, SupabaseService).                   *)
(*                                                                         *)
(* Representation.  A Python str is a sequence of atoms; an atom is a      *)
(* one-character TLA+ string, or one fixed chunk of a prompt template.     *)
(* A Python dict that the code iterates is a sequence of [key, val] pairs  *)
(* in insertion order.  A workflow State dict is a TLA+ function from the  *)
(* keys that are present to their values.  A side-effecting Python         *)
(* function f(args) is an operator f(W, args) on a world record W that     *)
(* carries the process state it may touch, and returns the new world with  *)
(* its return value.                                                       *)
(***************************************************************************)
EXTENDS Integers, Sequences, FiniteSets, TLC

(***************************************************************************)
(* Python str operations                                                   *)
(***************************************************************************)
UpperChars ==
  <<"A","B","C","D","E","F","G","H","I","J","K","L","M",
    "N","O","P","Q","R","S","T","U","V","W","X","Y","Z">>

LowerChars ==
  <<"a","b","c","d","e","f","g","h","i","j","k","l","m",
    "n","o","p","q","r","s","t","u","v","w","x","y","z">>

Digits == <<"0","1","2","3","4","5","6","7","8","9">>

InSeq(c, sq) == \E i \in 1..Len(sq) : sq[i] = c

IndexOf(c, sq) == CHOOSE i \in 1..Len(sq) : sq[i] = c

IsSpace(c) == c \in {" ", "\n", "\t"}

LowerChar(c) == IF InSeq(c, UpperChars) THEN LowerChars[IndexOf(c, UpperChars)] ELSE c

UpperChar(c) == IF InSeq(c, LowerChars) THEN UpperChars[IndexOf(c, LowerChars)] ELSE c

lower(s) == [i \in 1..Len(s) |-> LowerChar(s[i])]

upper(s) == [i \in 1..Len(s) |-> UpperChar(s[i])]

\* name = value followed by the statements that use name: value is computed once
Bind(value, Rest(_)) == Rest(value)

\* the least element of a non-empty set of integers
Least(S) == CHOOSE i \in S : \A j \in S : i <= j

\* the greatest element of a non-empty set of integers
Greatest(S) == CHOOSE i \in S : \A j \in S : j <= i

NonSpaceAt(s) == {i \in 1..Len(s) : ~IsSpace(s[i])}

strip(s) ==
  IF NonSpaceAt(s) = {} THEN <<>>
  ELSE SubSeq(s, Least(NonSpaceAt(s)), Greatest(NonSpaceAt(s)))

\* Python slice s[i-1:j]: clipped to the end of s
Slice(s, i, j) == SubSeq(s, i, IF j > Len(s) THEN Len(s) ELSE j)

startswith(s, p) == Len(s) >= Len(p) /\ SubSeq(s, 1, Len(p)) = p

endswith(s, p) == Len(s) >= Len(p) /\ SubSeq(s, Len(s) - Len(p) + 1, Len(s)) = p

\* Python `sub in s`
Contains(s, sub) == \E i \in 1..(Len(s) - Len(sub) + 1) : SubSeq(s, i, i + Len(sub) - 1) = sub

\* the start indexes of the occurrences of sub in s
OccurrencesOf(s, sub) == {i \in 1..(Len(s) - Len(sub) + 1) : SubSeq(s, i, i + Len(sub) - 1) = sub}

\* Python s.replace(old, new) for a non-empty old: every non-overlapping
\* occurrence, left to right (one recursion step per occurrence)
RECURSIVE replace(_, _, _)
replace(s, old, new) ==
  IF OccurrencesOf(s, old) = {} THEN s
  ELSE LET i == Least(OccurrencesOf(s, old))
       IN  SubSeq(s, 1, i - 1) \o new \o replace(SubSeq(s, i + Len(old), Len(s)), old, new)

\* set(s.split()): the whitespace-separated words of s
words(s) ==
  {SubSeq(s, i, Least({j \in i..Len(s) : j = Len(s) \/ IsSpace(s[j + 1])})) :
     i \in {k \in 1..Len(s) : ~IsSpace(s[k]) /\ (k = 1 \/ IsSpace(s[k - 1]))}}

\* Python s[-n:] on a list
LastN(sq, n) == IF n = 0 \/ Len(sq) <= n THEN sq ELSE SubSeq(sq, Len(sq) - n + 1, Len(sq))

(***************************************************************************)
(* ast.literal_eval restricted to the literals the SQL tool prints: a list *)
(* of tuples / scalars, a scalar being a single-quoted string without      *)
(* escapes or a decimal integer.  Anything else is a parse error.          *)
(* A value is [kind |-> "str"|"int", text], [kind |-> "tuple", elems] or   *)
(* [kind |-> "list", elems].                                               *)
(***************************************************************************)
ParseFail == [ok |-> FALSE]

\* first index at or after i that holds no whitespace (Len(s) + 1 if none)
skipSpaces(s, i) == Least({j \in i..(Len(s) + 1) : j = Len(s) + 1 \/ ~IsSpace(s[j])})

\* index of the closing quote at or after i, 0 if none (a backslash is not accepted)
scanQuote(s, i) ==
  LET stop == Least({j \in i..(Len(s) + 1) : j = Len(s) + 1 \/ s[j] \in {"'", "\\"}})
  IN  IF stop <= Len(s) /\ s[stop] = "'" THEN stop ELSE 0

\* first index at or after i that is not a digit
scanDigits(s, i) == Least({j \in i..(Len(s) + 1) : j = Len(s) + 1 \/ ~InSeq(s[j], Digits)})

ParseScalar(s, i) ==
  IF i > Len(s) THEN ParseFail
  ELSE IF s[i] = "'"
       THEN LET j == scanQuote(s, i + 1)
            IN  IF j = 0 THEN ParseFail
                ELSE [ok |-> TRUE, val |-> [kind |-> "str", text |-> SubSeq(s, i + 1, j - 1)], next |-> j + 1]
       ELSE IF InSeq(s[i], Digits)
            THEN LET j == scanDigits(s, i)
                 IN  IF s[i] = "0" /\ j > i + 1 THEN ParseFail
                     ELSE [ok |-> TRUE, val |-> [kind |-> "int", text |-> SubSeq(s, i, j - 1)], next |-> j]
            ELSE ParseFail

RECURSIVE ParseTupleRest(_, _, _, _)
\* after "(" : elements read so far in acc, comma tells whether a comma was seen
ParseTupleRest(s, i, acc, comma) ==
  Bind(skipSpaces(s, i), LAMBDA k :
    IF k > Len(s) THEN ParseFail
    ELSE IF s[k] = ")"
         THEN IF Len(acc) = 1 /\ ~comma
              THEN [ok |-> TRUE, val |-> acc[1], next |-> k + 1]
              ELSE [ok |-> TRUE, val |-> [kind |-> "tuple", elems |-> acc], next |-> k + 1]
         ELSE Bind(ParseScalar(s, k), LAMBDA e :
                IF ~e.ok THEN ParseFail
                ELSE Bind(skipSpaces(s, e.next), LAMBDA m :
                       IF m > Len(s) THEN ParseFail
                       ELSE IF s[m] = "," THEN ParseTupleRest(s, m + 1, Append(acc, e.val), TRUE)
                       ELSE IF s[m] = ")" THEN ParseTupleRest(s, m, Append(acc, e.val), comma)
                       ELSE ParseFail)))

ParseItem(s, i) ==
  IF i <= Len(s) /\ s[i] = "(" THEN ParseTupleRest(s, i + 1, <<>>, FALSE) ELSE ParseScalar(s, i)

RECURSIVE ParseListRest(_, _, _)
ParseListRest(s, i, acc) ==
  Bind(skipSpaces(s, i), LAMBDA k :
    IF k > Len(s) THEN ParseFail
    ELSE IF s[k] = "]"
         THEN IF skipSpaces(s, k + 1) > Len(s)
              THEN [ok |-> TRUE, val |-> [kind |-> "list", elems |-> acc]]
              ELSE ParseFail
         ELSE Bind(ParseItem(s, k), LAMBDA e :
                IF ~e.ok THEN ParseFail
                ELSE Bind(skipSpaces(s, e.next), LAMBDA m :
                       IF m > Len(s) THEN ParseFail
                       ELSE IF s[m] = "," THEN ParseListRest(s, m + 1, Append(acc, e.val))
                       ELSE IF s[m] = "]" THEN ParseListRest(s, m, Append(acc, e.val))
                       ELSE ParseFail)))

\* ast.literal_eval(s) for a text that starts with "[" (the only case the code evaluates)
literal_eval(s) ==
  IF s # <<>> /\ s[1] = "[" THEN ParseListRest(s, 2, <<>>) ELSE ParseFail

\* str(item[0]) of a parsed tuple
StrOfFirst(item) == item.elems[1].text

(***************************************************************************)
(* Python dict as an insertion-ordered sequence of [key, val]              *)
(***************************************************************************)
DictHas(d, k) == \E i \in 1..Len(d) : d[i].key = k

DictIndex(d, k) == CHOOSE i \in 1..Len(d) : d[i].key = k

DictGet(d, k, default) == IF DictHas(d, k) THEN d[DictIndex(d, k)].val ELSE default

\* d[k] = v : an existing key keeps its position, a new key goes last
DictSet(d, k, v) ==
  IF DictHas(d, k)
  THEN [i \in 1..Len(d) |-> IF d[i].key = k THEN [key |-> k, val |-> v] ELSE d[i]]
  ELSE Append(d, [key |-> k, val |-> v])

DictKeys(d) == [i \in 1..Len(d) |-> d[i].key]

(***************************************************************************)
(* World: the process state a handler can touch, threaded through the      *)
(* operators below.                                                        *)
(*   user_memories  MemoryManager.user_memories (username -> object)       *)
(*   rows           the conversation_memory_HITL table (username -> row)   *)
(*   connection     SupabaseService.connection is set                      *)
(*   dbFails        the statements of this handler raise in the driver     *)
(*   clock          datetime.now()                                         *)
(*   llm            the outcomes of the LLM calls this handler will make   *)
(*   sql            the outcome of the SQL tool for this handler           *)
(*   trace          the calls made by this handler, in order               *)
(***************************************************************************)
NoMemory == [present |-> FALSE]

NoRow == [present |-> FALSE]

\* datetime.now(): successive readings are strictly increasing
tick(W) == [W EXCEPT !.clock = @ + 1]

log(W, e) == [W EXCEPT !.trace = Append(@, e)]

(***************************************************************************)
(* SupabaseService (services/database.py)                                  *)
(***************************************************************************)
\* returns the row dict, or None (NoRow)
db_get_user_memory(W, username) ==
  IF ~W.connection THEN NoRow
  ELSE IF W.dbFails THEN NoRow
  ELSE W.rows[username]

\* INSERT ... ON CONFLICT (username) DO UPDATE: the whole record is written
db_save_user_memory(W, username, conversation_history, question_patterns, entity_memory) ==
  IF ~W.connection THEN W
  ELSE IF W.dbFails THEN W
  ELSE [W EXCEPT !.rows[username] =
          [present |-> TRUE,
           conversation_history |-> conversation_history,
           question_patterns |-> question_patterns,
           entity_memory |-> entity_memory,
           updated_at |-> W.clock]]

\* clear_user_memory whose UPDATE has no WHERE clause: every row is emptied
db_clear_user_memory_every_row(W, username) ==
  IF ~W.connection THEN W
  ELSE IF W.dbFails THEN W
  ELSE [W EXCEPT !.rows =
          [u \in DOMAIN W.rows |->
             IF W.rows[u].present
             THEN [present |-> TRUE, conversation_history |-> <<>>,
                   question_patterns |-> <<>>, entity_memory |-> <<>>,
                   updated_at |-> W.clock]
             ELSE W.rows[u]]]

\* UPDATE ... WHERE username = %s: an absent row stays absent
db_clear_user_memory(W, username) ==
  IF ~W.connection THEN W
  ELSE IF W.dbFails THEN W
  ELSE IF W.rows[username].present
       THEN [W EXCEPT !.rows[username] =
               [present |-> TRUE, conversation_history |-> <<>>,
                question_patterns |-> <<>>, entity_memory |-> <<>>,
                updated_at |-> W.clock]]
       ELSE W

(***************************************************************************)
(* ConversationMemory (services/memory_service.py)                         *)
(***************************************************************************)
max_history_default == 10

load_from_database(W, username) ==
  LET W1 == log(W, [ev |-> "load_from_database", username |-> username])
      memory_data == db_get_user_memory(W1, username)
      m == W1.user_memories[username]
  IN  IF memory_data.present
      THEN [W1 EXCEPT !.user_memories[username] =
              [m EXCEPT !.conversation_history = memory_data.conversation_history,
                        !.question_patterns = memory_data.question_patterns,
                        !.entity_memory = memory_data.entity_memory]]
      ELSE [W1 EXCEPT !.user_memories[username] =
              [m EXCEPT !.conversation_history = <<>>,
                        !.question_patterns = <<>>,
                        !.entity_memory = <<>>]]

\* ConversationMemory.__init__, the new object stored under its username
ConversationMemory(W, username) ==
  load_from_database(
    [W EXCEPT !.user_memories[username] =
       [present |-> TRUE, username |-> username, max_history |-> max_history_default,
        conversation_history |-> <<>>, question_patterns |-> <<>>, entity_memory |-> <<>>]],
    username)

\* save_to_database that drops the record from the cache when the table did not
\* take the write
save_to_database_or_evict(W, username) ==
  LET m == W.user_memories[username]
      saved == db_save_user_memory(W, username, m.conversation_history, m.question_patterns,
                                   m.entity_memory)
  IN  IF ~W.connection \/ W.dbFails
      THEN [saved EXCEPT !.user_memories[username] = NoMemory]
      ELSE saved

\* save_to_database that writes the conversation log only and leaves the
\* pattern and entity columns of the row as they are
save_to_database_history_only(W, username) ==
  LET m == W.user_memories[username]
      row == W.rows[username]
  IN  db_save_user_memory(W, username, m.conversation_history,
                          IF row.present THEN row.question_patterns ELSE <<>>,
                          IF row.present THEN row.entity_memory ELSE <<>>)

save_to_database(W, username) ==
  LET m == W.user_memories[username]
  IN  db_save_user_memory(W, username, m.conversation_history, m.question_patterns, m.entity_memory)

RECURSIVE extract_entities_items(_, _, _, _, _)
\* the for loop of _extract_entities over the parsed items, from index i
extract_entities_items(W, username, items, i, question_result_answer) ==
  IF i > Len(items) THEN W
  ELSE LET item == items[i]
       IN  IF item.kind = "tuple" /\ Len(item.elems) > 0
           THEN LET entity == lower(StrOfFirst(item))
                    entry == [question |-> question_result_answer[1],
                              full_result |-> question_result_answer[2],
                              answer |-> question_result_answer[3],
                              timestamp |-> W.clock]
                    W1 == [tick(W) EXCEPT !.user_memories[username].entity_memory =
                             DictSet(@, entity, entry)]
                IN  extract_entities_items(W1, username, items, i + 1, question_result_answer)
           ELSE extract_entities_items(W, username, items, i + 1, question_result_answer)

\* _extract_entities that empties the index when the result is not a literal
extract_entities_resetting(W, username, question, result, answer) ==
  IF startswith(result, <<"[">>) /\ endswith(result, <<"]">>)
  THEN Bind(literal_eval(result), LAMBDA parsed_result :
         IF ~parsed_result.ok THEN [W EXCEPT !.user_memories[username].entity_memory = <<>>]
         ELSE IF parsed_result.val.elems # <<>>
              THEN extract_entities_items(W, username, parsed_result.val.elems, 1,
                                          <<question, result, answer>>)
              ELSE W)
  ELSE [W EXCEPT !.user_memories[username].entity_memory = <<>>]

\* _extract_entities that stops after the first item of the list
extract_entities_first_item_only(W, username, question, result, answer) ==
  IF startswith(result, <<"[">>) /\ endswith(result, <<"]">>)
  THEN Bind(literal_eval(result), LAMBDA parsed_result :
         IF ~parsed_result.ok THEN W
         ELSE IF parsed_result.val.elems # <<>>
              THEN extract_entities_items(W, username, SubSeq(parsed_result.val.elems, 1, 1), 1,
                                          <<question, result, answer>>)
              ELSE W)
  ELSE W

extract_entities(W, username, question, result, answer) ==
  IF startswith(result, <<"[">>) /\ endswith(result, <<"]">>)
  THEN Bind(literal_eval(result), LAMBDA parsed_result :
         IF ~parsed_result.ok THEN W
         ELSE IF parsed_result.val.elems # <<>>
              THEN extract_entities_items(W, username, parsed_result.val.elems, 1,
                                          <<question, result, answer>>)
              ELSE W)
  ELSE W

common_columns ==
  << <<"n","a","m","e">>, <<"m","a","r","k","s">>, <<"c","l","a","s","s">>,
     <<"s","e","c","t","i","o","n">>, <<"g","r","a","d","e">>,
     <<"e","m","a","i","l">>, <<"i","d">> >>

PatternAppend(patterns, pattern_key, question, query) ==
  DictSet(patterns, pattern_key,
          Append(DictGet(patterns, pattern_key, <<>>), [question |-> question, query |-> query]))

RECURSIVE extract_columns(_, _, _, _)
extract_columns(patterns, i, question, query) ==
  IF i > Len(common_columns) THEN patterns
  ELSE IF Contains(lower(question), common_columns[i])
       THEN extract_columns(PatternAppend(patterns, common_columns[i] \o <<"_queries">>, question, query),
                            i + 1, question, query)
       ELSE extract_columns(patterns, i + 1, question, query)

extract_question_patterns(patterns, question, query) ==
  LET p1 == IF Contains(lower(question), <<"s","t","u","d","e","n","t">>)
            THEN PatternAppend(patterns, <<"s","t","u","d","e","n","t","_queries">>, question, query)
            ELSE patterns
  IN  extract_columns(p1, 1, question, query)

\* add_interaction that trims the log by dropping its newest entries
add_interaction_keeping_oldest(W, username, question, query, result, answer) ==
  LET W0 == log(W, [ev |-> "add_interaction", username |-> username, question |-> question,
                    query |-> query, result |-> result, answer |-> answer])
      m == W0.user_memories[username]
      interaction == [timestamp |-> W0.clock, question |-> question, query |-> query,
                      result |-> result, answer |-> answer]
      appended == Append(m.conversation_history, interaction)
      history == IF Len(appended) > m.max_history THEN SubSeq(appended, 1, m.max_history)
                 ELSE appended
      W1 == [tick(W0) EXCEPT !.user_memories[username].conversation_history = history,
                             !.user_memories[username].question_patterns =
                                extract_question_patterns(@, question, query)]
      W2 == extract_entities(W1, username, question, result, answer)
  IN  save_to_database(W2, username)

\* add_interaction that, when the log evicts an interaction, also drops the
\* entities and pattern entries recorded so far
add_interaction_trimming_indexes(W, username, question, query, result, answer) ==
  LET W0 == log(W, [ev |-> "add_interaction", username |-> username, question |-> question,
                    query |-> query, result |-> result, answer |-> answer])
      m == W0.user_memories[username]
      interaction == [timestamp |-> W0.clock, question |-> question, query |-> query,
                      result |-> result, answer |-> answer]
      appended == Append(m.conversation_history, interaction)
      evicts == Len(appended) > m.max_history
      history == IF evicts
                 THEN SubSeq(appended, Len(appended) - m.max_history + 1, Len(appended))
                 ELSE appended
      W1 == [tick(W0) EXCEPT !.user_memories[username].conversation_history = history,
                             !.user_memories[username].entity_memory =
                                IF evicts THEN <<>> ELSE @,
                             !.user_memories[username].question_patterns =
                                extract_question_patterns(IF evicts THEN <<>> ELSE @,
                                                          question, query)]
      W2 == extract_entities(W1, username, question, result, answer)
  IN  save_to_database(W2, username)

add_interaction(W, username, question, query, result, answer) ==
  LET W0 == log(W, [ev |-> "add_interaction", username |-> username, question |-> question,
                    query |-> query, result |-> result, answer |-> answer])
      m == W0.user_memories[username]
      interaction == [timestamp |-> W0.clock, question |-> question, query |-> query,
                      result |-> result, answer |-> answer]
      appended == Append(m.conversation_history, interaction)
      history == IF Len(appended) > m.max_history THEN LastN(appended, m.max_history) ELSE appended
      W1 == [tick(W0) EXCEPT !.user_memories[username].conversation_history = history,
                             !.user_memories[username].question_patterns =
                                extract_question_patterns(@, question, query)]
      W2 == extract_entities(W1, username, question, result, answer)
  IN  save_to_database(W2, username)

pronouns ==
  << <<"h","e","r">>, <<"h","i","s">>, <<"t","h","e","i","r">>, <<"i","t">>,
     <<"s","h","e">>, <<"h","e">>, <<"t","h","e","y">> >>

\* the first item of the parsed list that is a non-empty tuple, 0 if none
FirstTupleIndex(items) ==
  IF \E i \in 1..Len(items) : items[i].kind = "tuple" /\ Len(items[i].elems) > 0
  THEN CHOOSE i \in 1..Len(items) :
         /\ items[i].kind = "tuple" /\ Len(items[i].elems) > 0
         /\ \A j \in 1..(i - 1) : ~(items[j].kind = "tuple" /\ Len(items[j].elems) > 0)
  ELSE 0

\* one iteration of a pronoun loop that takes the newest interaction whose
\* result is a bracketed text, not the newest interaction
resolve_pronoun_newest_tabular(m, question_lower, resolved_question, pronoun) ==
  LET tabular == {i \in 1..Len(m.conversation_history) :
                    /\ startswith(m.conversation_history[i].result, <<"[">>)
                    /\ endswith(m.conversation_history[i].result, <<"]">>)}
  IN  IF Contains(question_lower, pronoun) /\ tabular # {}
      THEN LET last_result ==
                 m.conversation_history[CHOOSE i \in tabular : \A j \in tabular : j <= i].result
           IN  Bind(literal_eval(last_result), LAMBDA parsed_result :
                 IF parsed_result.ok /\ FirstTupleIndex(parsed_result.val.elems) # 0
                 THEN replace(resolved_question, pronoun,
                              StrOfFirst(parsed_result.val.elems[FirstTupleIndex(parsed_result.val.elems)]))
                 ELSE resolved_question)
      ELSE resolved_question

\* one iteration of the pronoun loop
resolve_pronoun(m, question_lower, resolved_question, pronoun) ==
  IF Contains(question_lower, pronoun) /\ m.conversation_history # <<>>
  THEN LET last_result == m.conversation_history[Len(m.conversation_history)].result
       IN  IF startswith(last_result, <<"[">>) /\ endswith(last_result, <<"]">>)
           THEN Bind(literal_eval(last_result), LAMBDA parsed_result :
                  IF parsed_result.ok /\ FirstTupleIndex(parsed_result.val.elems) # 0
                  THEN replace(resolved_question, pronoun,
                               StrOfFirst(parsed_result.val.elems[FirstTupleIndex(parsed_result.val.elems)]))
                  ELSE resolved_question)
           ELSE resolved_question
  ELSE resolved_question

RECURSIVE resolve_pronouns(_, _, _, _)
resolve_pronouns(m, question_lower, resolved_question, i) ==
  IF i > Len(pronouns) THEN resolved_question
  ELSE resolve_pronouns(m, question_lower,
                        resolve_pronoun(m, question_lower, resolved_question, pronouns[i]), i + 1)

\* the entity that was inserted last, whatever its timestamp
recent_entity_last_inserted(entity_memory) == entity_memory[Len(entity_memory)]

\* max(entity_memory.items(), key=timestamp): the first of the greatest
recent_entity(entity_memory) ==
  entity_memory[CHOOSE i \in 1..Len(entity_memory) :
                  /\ \A j \in 1..Len(entity_memory) :
                       entity_memory[j].val.timestamp <= entity_memory[i].val.timestamp
                  /\ \A j \in 1..(i - 1) :
                       entity_memory[j].val.timestamp < entity_memory[i].val.timestamp]

resolve_contextual_references(m, question) ==
  Bind(lower(question), LAMBDA question_lower :
    IF /\ Contains(question_lower, <<"w","h","a","t">>)
       /\ \/ Contains(question_lower, <<"m","a","r","k","s">>)
          \/ Contains(question_lower, <<"g","r","a","d","e">>)
       /\ m.entity_memory # <<>>
       /\ ~ \E i \in 1..Len(m.entity_memory) : Contains(question_lower, m.entity_memory[i].key)
    THEN <<"w","h","a","t"," ","a","r","e"," ">> \o recent_entity(m.entity_memory).key
         \o <<"'","s"," ","m","a","r","k","s">>
    ELSE resolve_pronouns(m, question_lower, question, 1))

\* the words the two questions share: set(a.split()) & set(b.split())
common_words(current_question_lower, question) ==
  words(current_question_lower) \cap words(question)

RECURSIVE relevant_interactions_sharing_one(_, _, _)
\* the filter with the threshold at one shared word
relevant_interactions_sharing_one(history, current_question_lower, i) ==
  IF i > Len(history) THEN <<>>
  ELSE (IF Cardinality(common_words(current_question_lower, lower(history[i].question))) >= 1
        THEN <<history[i]>> ELSE <<>>)
       \o relevant_interactions_sharing_one(history, current_question_lower, i + 1)

\* the interactions of the history that share at least 2 words with the question
RECURSIVE relevant_interactions(_, _, _)
relevant_interactions(history, current_question_lower, i) ==
  IF i > Len(history) THEN <<>>
  ELSE (IF Cardinality(common_words(current_question_lower, lower(history[i].question))) >= 2
        THEN <<history[i]>> ELSE <<>>)
       \o relevant_interactions(history, current_question_lower, i + 1)

interaction_id(interaction) == <<interaction.question, interaction.timestamp>>

\* the dedup loop: first occurrence of every interaction_id, in order
RECURSIVE unique_relevant(_, _, _)
unique_relevant(all_relevant, i, seen) ==
  IF i > Len(all_relevant) THEN <<>>
  ELSE IF interaction_id(all_relevant[i]) \in seen
       THEN unique_relevant(all_relevant, i + 1, seen)
       ELSE <<all_relevant[i]>>
            \o unique_relevant(all_relevant, i + 1, seen \cup {interaction_id(all_relevant[i])})

\* the narrative listing every deduplicated interaction
context_interactions_listing_all(m, current_question) ==
  LET history == m.conversation_history
      recent_interactions == LastN(history, 2)
      all_relevant == recent_interactions \o relevant_interactions(history, lower(current_question), 1)
  IN  unique_relevant(all_relevant, 1, {})

\* the interactions the narrative lists: unique_relevant[-3:]
context_interactions(m, current_question) ==
  LET history == m.conversation_history
      recent_interactions == LastN(history, 2)
      all_relevant == recent_interactions \o relevant_interactions(history, lower(current_question), 1)
  IN  LastN(unique_relevant(all_relevant, 1, {}), 3)

CtxHeader == <<"CONVERSATION CONTEXT (use this to resolve references like 'her', 'his', 'it', etc.):">>

\* the four context_parts of the i-th listed interaction, joined by newlines
context_part(i, interaction) ==
  <<"\n", Digits[i + 1], ". Previous Question: ">> \o interaction.question
  \o <<"\n", "   SQL Query: ">> \o interaction.query
  \o <<"\n", "   Result: ">> \o interaction.result
  \o <<"\n", "   Answer Given: ">> \o interaction.answer

RECURSIVE context_parts(_, _)
context_parts(listed, i) ==
  IF i > Len(listed) THEN <<>>
  ELSE <<"\n">> \o context_part(i, listed[i]) \o context_parts(listed, i + 1)

\* repr of a list of str
RECURSIVE list_repr_items(_, _)
list_repr_items(keys, i) ==
  IF i > Len(keys) THEN <<>>
  ELSE (IF i > 1 THEN <<",", " ">> ELSE <<>>) \o <<"'">> \o keys[i] \o <<"'">>
       \o list_repr_items(keys, i + 1)

list_repr(keys) == <<"[">> \o list_repr_items(keys, 1) \o <<"]">>

get_relevant_context(m, current_question) ==
  IF m.conversation_history = <<>> THEN <<>>
  ELSE Bind(context_interactions(m, current_question), LAMBDA listed :
         IF listed # <<>>
         THEN CtxHeader \o context_parts(listed, 1)
              \o (IF m.entity_memory # <<>>
                  THEN <<"\n", "\n", "KNOWN ENTITIES: ">> \o list_repr(DictKeys(m.entity_memory))
                  ELSE <<>>)
         ELSE <<>>)

\* get_conversation_summary that returns the whole log as the recent interactions
get_conversation_summary_whole_log(m) ==
  [username |-> m.username,
   total_interactions |-> Len(m.conversation_history),
   recent_interactions |-> m.conversation_history,
   known_entities |-> DictKeys(m.entity_memory),
   question_patterns |-> DictKeys(m.question_patterns)]

get_conversation_summary(m) ==
  [username |-> m.username,
   total_interactions |-> Len(m.conversation_history),
   recent_interactions |-> LastN(m.conversation_history, 5),
   known_entities |-> DictKeys(m.entity_memory),
   question_patterns |-> DictKeys(m.question_patterns)]

clear_memory(W, username) ==
  db_clear_user_memory(
    [W EXCEPT !.user_memories[username].conversation_history = <<>>,
              !.user_memories[username].question_patterns = <<>>,
              !.user_memories[username].entity_memory = <<>>],
    username)

(***************************************************************************)
(* MemoryManager (services/memory_service.py)                              *)
(***************************************************************************)
\* the world after the call; the object returned is W.user_memories[username]
get_user_memory(W, username) ==
  LET W1 == log(W, [ev |-> "get_user_memory", username |-> username])
  IN  IF ~W1.user_memories[username].present
      THEN ConversationMemory(W1, username)
      ELSE W1

clear_user_memory(W, username) ==
  IF W.user_memories[username].present
  THEN [clear_memory(W, username) EXCEPT !.user_memories[username] = NoMemory]
  ELSE db_clear_user_memory(W, username)

(***************************************************************************)
(* SQLAgent (services/sql_agent.py)                                        *)
(***************************************************************************)
\* dict.get(key, default)
Get(state, key, default) == IF key \in DOMAIN state THEN state[key] ELSE default

\* state[key] = value
SetKey(state, key, value) ==
  [x \in (DOMAIN state) \cup {key} |-> IF x = key THEN value ELSE state[x]]

\* {**state, **update}
Merge(state, update) ==
  [x \in (DOMAIN state) \cup (DOMAIN update) |-> IF x \in DOMAIN update THEN update[x] ELSE state[x]]

\* str(e) of the exception an unavailable LLM capability raises
LlmErrorText == <<"llm capability failure">>

\* self.llm.invoke(...): the next outcome the environment supplies; the call is
\* logged with what it was given and what came back
llm_invoke(W, call) ==
  [W |-> [log(W, call @@ [ok |-> Head(W.llm).ok, content |-> Head(W.llm).content])
            EXCEPT !.llm = Tail(@)],
   ok |-> Head(W.llm).ok,
   content |-> Head(W.llm).content]

Str_sql == <<"s","q","l">>

Str_chat == <<"c","h","a","t">>

\* the backquote character (an atom of its own)
Backquote == "BACKQUOTE"

Fence == <<Backquote, Backquote, Backquote>>

FenceOpen == Fence \o Str_sql

\* the fenced-block pattern of write_query (a sql fence, whitespace, the shortest
\* text up to the next fence) tried at start position i:
\* the (first, last) index pair of group 1, or <<0, 0>> when there is no match at i
fence_match_at(text, i) ==
  IF Slice(text, i, i + Len(FenceOpen) - 1) # FenceOpen THEN <<0, 0>>
  ELSE LET ws == i + Len(FenceOpen)
           body == skipSpaces(text, ws)
       IN  IF body = ws THEN <<0, 0>>
           ELSE IF \E c \in body..(Len(text) - 2) : SubSeq(text, c, c + 2) = Fence
                THEN <<body, (CHOOSE c \in body..(Len(text) - 2) :
                                /\ SubSeq(text, c, c + 2) = Fence
                                /\ \A d \in body..(c - 1) : SubSeq(text, d, d + 2) # Fence) - 1>>
                ELSE <<0, 0>>

\* the query text write_query takes out of the reply
extract_sql(response_text) ==
  IF \E i \in 1..Len(response_text) : fence_match_at(response_text, i) # <<0, 0>>
  THEN Bind(fence_match_at(response_text,
                           CHOOSE i \in 1..Len(response_text) :
                             /\ fence_match_at(response_text, i) # <<0, 0>>
                             /\ \A j \in 1..(i - 1) : fence_match_at(response_text, j) = <<0, 0>>),
            LAMBDA g : strip(SubSeq(response_text, g[1], g[2])))
  ELSE strip(response_text)

Str_LIMIT == <<"L","I","M","I","T">>

\* the LIMIT pattern of validate_and_fix_query (whitespace, LIMIT in any case,
\* whitespace, digits, optional whitespace, end of text) matches starting at index i
limit_match_at(query, i) ==
  LET j == skipSpaces(query, i)
      k == j + Len(Str_LIMIT)
      d == skipSpaces(query, k)
      e == scanDigits(query, d)
  IN  /\ j > i
      /\ upper(Slice(query, j, k - 1)) = Str_LIMIT
      /\ d > k
      /\ e > d
      /\ skipSpaces(query, e) > Len(query)

\* validate_and_fix_query that strips the LIMIT clause of every statement
validate_and_fix_query_any_statement(query0) ==
  Bind(strip(query0), LAMBDA query :
    replace(IF \E i \in 1..Len(query) : limit_match_at(query, i)
            THEN SubSeq(query, 1, (CHOOSE i \in 1..Len(query) :
                                     /\ limit_match_at(query, i)
                                     /\ \A j \in 1..(i - 1) : ~limit_match_at(query, j)) - 1)
            ELSE query,
            <<"\n">>, <<" ">>))

validate_and_fix_query(query0) ==
  Bind(strip(query0), LAMBDA query :
    replace(IF /\ \/ startswith(upper(query), <<"U","P","D","A","T","E">>)
                  \/ startswith(upper(query), <<"I","N","S","E","R","T">>)
                  \/ startswith(upper(query), <<"D","E","L","E","T","E">>)
               /\ \E i \in 1..Len(query) : limit_match_at(query, i)
            THEN SubSeq(query, 1, (CHOOSE i \in 1..Len(query) :
                                     /\ limit_match_at(query, i)
                                     /\ \A j \in 1..(i - 1) : ~limit_match_at(query, j)) - 1)
            ELSE query,
            <<"\n">>, <<" ">>))

\* node: returns the update {context_from_memory, resolved_question}
add_memory_context(W, state) ==
  Bind(get_user_memory(log(W, [ev |-> "node", name |-> "add_memory_context"]), state["username"]),
       LAMBDA W1 :
    Bind(W1.user_memories[state["username"]], LAMBDA user_memory :
      [W |-> W1, exc |-> FALSE,
       state |-> [context_from_memory |-> get_relevant_context(user_memory, state["question"]),
                  resolved_question |->
                    resolve_contextual_references(user_memory, state["question"])]]))

\* classify_intent that takes any reply beginning with sql for the sql intent
classify_intent_by_prefix(W, state) ==
  Bind(llm_invoke(log(W, [ev |-> "node", name |-> "classify_intent"]),
                  [ev |-> "llm", kind |-> "classify_intent",
                   memory_context |-> Get(state, "context_from_memory", <<>>),
                   question |-> state["question"],
                   resolved_question |-> Get(state, "resolved_question", state["question"])]),
       LAMBDA response :
    Bind(lower(strip(response.content)), LAMBDA replied :
      IF ~response.ok THEN [W |-> response.W, exc |-> TRUE, state |-> state]
      ELSE [W |-> response.W, exc |-> FALSE,
            state |-> SetKey(state, "intent",
                             IF startswith(replied, Str_sql) THEN Str_sql ELSE Str_chat)]))

classify_intent(W, state) ==
  Bind(llm_invoke(log(W, [ev |-> "node", name |-> "classify_intent"]),
                  [ev |-> "llm", kind |-> "classify_intent",
                   memory_context |-> Get(state, "context_from_memory", <<>>),
                   question |-> state["question"],
                   resolved_question |-> Get(state, "resolved_question", state["question"])]),
       LAMBDA response :
    Bind(lower(strip(response.content)), LAMBDA replied :
      IF ~response.ok THEN [W |-> response.W, exc |-> TRUE, state |-> state]
      ELSE [W |-> response.W, exc |-> FALSE,
            state |-> SetKey(state, "intent",
                             IF replied \notin {Str_sql, Str_chat} THEN Str_chat ELSE replied)]))

basic_chat(W, state) ==
  Bind(llm_invoke(log(W, [ev |-> "node", name |-> "basic_chat"]),
                  [ev |-> "llm", kind |-> "basic_chat",
                   memory_context |-> Get(state, "context_from_memory", <<>>),
                   question |-> state["question"],
                   resolved_question |-> Get(state, "resolved_question", state["question"])]),
       LAMBDA response :
    Bind(strip(response.content), LAMBDA answer :
      IF ~response.ok THEN [W |-> response.W, exc |-> TRUE, state |-> state]
      ELSE [W |-> add_interaction(get_user_memory(response.W, state["username"]),
                                  state["username"], state["question"], <<>>, <<>>, answer),
            exc |-> FALSE,
            state |-> SetKey(SetKey(SetKey(state, "answer", answer), "query", <<>>), "result", <<>>)]))

\* write_query that also records the statement it wrote as an interaction
write_query_recording(W, state) ==
  Bind(llm_invoke(log(W, [ev |-> "node", name |-> "write_query"]),
                  [ev |-> "llm", kind |-> "write_query",
                   memory_context |-> Get(state, "context_from_memory", <<>>),
                   resolved_question |-> Get(state, "resolved_question", state["question"]),
                   question |-> state["question"],
                   feedback |-> Get(state, "feedback", <<>>)]),
       LAMBDA raw_response :
    Bind(validate_and_fix_query(extract_sql(strip(raw_response.content))), LAMBDA sql_query :
      IF ~raw_response.ok THEN [W |-> raw_response.W, exc |-> TRUE, state |-> state]
      ELSE [W |-> add_interaction(get_user_memory(raw_response.W, state["username"]),
                                  state["username"], state["question"], sql_query, <<>>, <<>>),
            exc |-> FALSE, state |-> SetKey(state, "query", sql_query)]))

write_query(W, state) ==
  Bind(llm_invoke(log(W, [ev |-> "node", name |-> "write_query"]),
                  [ev |-> "llm", kind |-> "write_query",
                   memory_context |-> Get(state, "context_from_memory", <<>>),
                   resolved_question |-> Get(state, "resolved_question", state["question"]),
                   question |-> state["question"],
                   feedback |-> Get(state, "feedback", <<>>)]),
       LAMBDA raw_response :
    Bind(validate_and_fix_query(extract_sql(strip(raw_response.content))), LAMBDA sql_query :
      IF ~raw_response.ok THEN [W |-> raw_response.W, exc |-> TRUE, state |-> state]
      ELSE [W |-> raw_response.W, exc |-> FALSE, state |-> SetKey(state, "query", sql_query)]))

\* the marker execute_query puts before the text of the exception
ErrorMarker == <<"Error executing query: ">>

\* the SQL tool runs W.sql as the outcome of the statement
execute_query(W, state) ==
  Bind(log(W, [ev |-> "execute_query", query |-> state["query"], ok |-> W.sql.ok]), LAMBDA W1 :
    IF W1.sql.ok
    THEN [W |-> W1, exc |-> FALSE, state |-> SetKey(state, "result", W1.sql.text)]
    ELSE [W |-> W1, exc |-> FALSE,
          state |-> SetKey(state, "result", ErrorMarker \o W1.sql.text)])

\* generate_answer that answers with the error text when the LLM call raises,
\* and records the interaction as usual
generate_answer_swallowing(W, state) ==
  Bind(llm_invoke(log(W, [ev |-> "node", name |-> "generate_answer"]),
                  [ev |-> "llm", kind |-> "generate_answer",
                   question |-> state["question"],
                   resolved_question |->
                     Get(state, "resolved_question", Get(state, "question", <<>>)),
                   query |-> state["query"],
                   result |-> state["result"],
                   feedback |-> Get(state, "feedback", <<>>),
                   memory_context |-> Get(state, "context_from_memory", <<>>)]),
       LAMBDA response :
    Bind(IF response.ok THEN strip(response.content) ELSE LlmErrorText, LAMBDA answer :
      [W |-> add_interaction(get_user_memory(response.W, state["username"]),
                             state["username"], state["question"], state["query"],
                             state["result"], answer),
       exc |-> FALSE,
       state |-> SetKey(SetKey(state, "answer", answer), "context_from_memory",
                        Get(state, "context_from_memory", <<>>))]))

generate_answer(W, state) ==
  Bind(llm_invoke(log(W, [ev |-> "node", name |-> "generate_answer"]),
                  [ev |-> "llm", kind |-> "generate_answer",
                   question |-> state["question"],
                   resolved_question |->
                     Get(state, "resolved_question", Get(state, "question", <<>>)),
                   query |-> state["query"],
                   result |-> state["result"],
                   feedback |-> Get(state, "feedback", <<>>),
                   memory_context |-> Get(state, "context_from_memory", <<>>)]),
       LAMBDA response :
    Bind(strip(response.content), LAMBDA answer :
      IF ~response.ok THEN [W |-> response.W, exc |-> TRUE, state |-> state]
      ELSE [W |-> add_interaction(get_user_memory(response.W, state["username"]),
                                  state["username"], state["question"], state["query"],
                                  state["result"], answer),
            exc |-> FALSE,
            state |-> SetKey(SetKey(state, "answer", answer), "context_from_memory",
                             Get(state, "context_from_memory", <<>>))]))

should_route_to_sql(state) ==
  IF Get(state, "intent", Str_chat) = Str_sql THEN "sql" ELSE "chat"

\* build_graph with the first two edges exchanged: the intent is classified before
\* the memory context is attached
graph_next_classify_first(node, state) ==
  CASE node = "START" -> "classify_intent"
    [] node = "classify_intent" -> "add_memory_context"
    [] node = "add_memory_context" ->
         (IF should_route_to_sql(state) = "sql" THEN "write_query" ELSE "basic_chat")
    [] node = "execute_query" -> "generate_answer"
    [] OTHER -> "END"

\* build_graph: the node that follows `node`, "END" when it has no outgoing edge
graph_next(node, state) ==
  CASE node = "START" -> "add_memory_context"
    [] node = "add_memory_context" -> "classify_intent"
    [] node = "classify_intent" ->
         (IF should_route_to_sql(state) = "sql" THEN "write_query" ELSE "basic_chat")
    [] node = "execute_query" -> "generate_answer"
    [] OTHER -> "END"

\* the callable registered for a node
run_node(W, node, state) ==
  CASE node = "add_memory_context" -> add_memory_context(W, state)
    [] node = "classify_intent" -> classify_intent(W, state)
    [] node = "basic_chat" -> basic_chat(W, state)
    [] node = "write_query" -> write_query(W, state)
    [] node = "execute_query" -> execute_query(W, state)
    [] node = "generate_answer" -> generate_answer(W, state)

\* Python None
PyNone == <<"<None>">>

\* truth value of an Optional[str]
Truthy(x) == x # PyNone /\ x # <<>>

\* x or ""
OrEmpty(x) == IF Truthy(x) THEN x ELSE <<>>

\* the loop of run_until_human_review over graph.stream(initial_state), from the
\* step of `node` on: ret is the value returned, exc tells that a node raised
RECURSIVE stream_until_review(_, _, _, _)
stream_until_review(W, username, state, node) ==
  Bind(run_node(W, node, state), LAMBDA step :
    IF step.exc THEN [W |-> step.W, exc |-> TRUE, ret |-> state]
    ELSE IF node = "basic_chat"
         THEN [W |-> add_interaction(get_user_memory(step.W, username), username,
                                     step.state["question"], <<>>, <<>>, step.state["answer"]),
               exc |-> FALSE, ret |-> step.state]
         ELSE IF node = "write_query"
              THEN [W |-> step.W, exc |-> FALSE, ret |-> step.state]
              ELSE Bind(Merge(state, step.state), LAMBDA merged :
                     IF graph_next(node, merged) = "END"
                     THEN [W |-> step.W, exc |-> FALSE, ret |-> merged]
                     ELSE stream_until_review(step.W, username, merged, graph_next(node, merged))))

\* run_until_human_review with the pause left out: the statement is run as soon as
\* it has been written
run_without_human_review(W, username, question) ==
  Bind([username |-> username, question |-> question, query |-> <<>>, result |-> <<>>,
        answer |-> <<>>, error |-> <<>>, success |-> TRUE, context_from_memory |-> <<>>,
        resolved_question |-> <<>>, feedback |-> <<>>],
       LAMBDA initial_state :
    Bind(stream_until_review(W, username, initial_state, graph_next("START", initial_state)),
         LAMBDA run :
      IF run.exc
      THEN [W |-> run.W,
            ret |-> [username |-> username, question |-> question, query |-> <<>>,
                   result |-> <<>>,
                   answer |-> <<"Error during processing: ">> \o LlmErrorText,
                   error |-> LlmErrorText, success |-> FALSE,
                   context_from_memory |-> <<>>, resolved_question |-> question,
                   feedback |-> <<>>]]
      ELSE IF Get(run.ret, "intent", Str_chat) = Str_sql
           THEN [W |-> execute_query(run.W, run.ret).W, ret |-> run.ret]
           ELSE [W |-> run.W, ret |-> run.ret]))

run_until_human_review(W, username, question) ==
  Bind([username |-> username, question |-> question, query |-> <<>>, result |-> <<>>,
        answer |-> <<>>, error |-> <<>>, success |-> TRUE, context_from_memory |-> <<>>,
        resolved_question |-> <<>>, feedback |-> <<>>],
       LAMBDA initial_state :
    Bind(stream_until_review(W, username, initial_state, graph_next("START", initial_state)),
         LAMBDA run :
      IF run.exc
      THEN [W |-> run.W,
            ret |-> [username |-> username, question |-> question, query |-> <<>>,
                   result |-> <<>>,
                   answer |-> <<"Error during processing: ">> \o LlmErrorText,
                   error |-> LlmErrorText, success |-> FALSE,
                   context_from_memory |-> <<>>, resolved_question |-> question,
                   feedback |-> <<>>]]
      ELSE [W |-> run.W, ret |-> run.ret]))

\* regenerate_query_with_feedback that appends the feedback as it was typed
regenerate_query_with_untrimmed_feedback(W, state_before_write, feedback) ==
  Bind(state_before_write, LAMBDA current_state :
    Bind(write_query(W,
           [username |-> Get(current_state, "username", <<>>),
            question |-> IF Truthy(feedback)
                         THEN strip(current_state["question"]) \o <<" ", "(">> \o feedback
                              \o <<")">>
                         ELSE current_state["question"],
            context_from_memory |-> Get(current_state, "context_from_memory", <<>>),
            query |-> <<>>, result |-> <<>>, answer |-> <<>>, error |-> <<>>, success |-> TRUE,
            resolved_question |-> <<>>,
            feedback |-> OrEmpty(feedback)]),
         LAMBDA written :
      IF written.exc
      THEN [W |-> written.W,
            ret |-> [username |-> Get(current_state, "username", <<>>),
                     question |-> Get(current_state, "question", <<>>),
                     resolved_question |-> Get(current_state, "resolved_question", <<>>),
                     query |-> <<>>, result |-> <<>>,
                     answer |-> <<"Error during regeneration: ">> \o LlmErrorText,
                     error |-> LlmErrorText, success |-> FALSE,
                     context_from_memory |-> Get(current_state, "context_from_memory", <<>>),
                     feedback |-> OrEmpty(feedback)]]
      ELSE [W |-> written.W, ret |-> written.state]))

\* regenerate_query_with_feedback that appends a feedback fragment only to a
\* question that carries none yet
regenerate_query_appending_once(W, state_before_write, feedback) ==
  Bind(state_before_write, LAMBDA current_state :
    Bind(write_query(W,
           [username |-> Get(current_state, "username", <<>>),
            question |-> IF Truthy(feedback) /\ ~endswith(strip(current_state["question"]), <<")">>)
                         THEN strip(current_state["question"]) \o <<" ", "(">> \o strip(feedback)
                              \o <<")">>
                         ELSE current_state["question"],
            context_from_memory |-> Get(current_state, "context_from_memory", <<>>),
            query |-> <<>>, result |-> <<>>, answer |-> <<>>, error |-> <<>>, success |-> TRUE,
            resolved_question |-> <<>>,
            feedback |-> OrEmpty(feedback)]),
         LAMBDA written :
      IF written.exc
      THEN [W |-> written.W,
            ret |-> [username |-> Get(current_state, "username", <<>>),
                     question |-> Get(current_state, "question", <<>>),
                     resolved_question |-> Get(current_state, "resolved_question", <<>>),
                     query |-> <<>>, result |-> <<>>,
                     answer |-> <<"Error during regeneration: ">> \o LlmErrorText,
                     error |-> LlmErrorText, success |-> FALSE,
                     context_from_memory |-> Get(current_state, "context_from_memory", <<>>),
                     feedback |-> OrEmpty(feedback)]]
      ELSE [W |-> written.W, ret |-> written.state]))

regenerate_query_with_feedback(W, state_before_write, feedback) ==
  Bind(state_before_write, LAMBDA current_state :
    Bind(write_query(W,
           [username |-> Get(current_state, "username", <<>>),
            question |-> IF Truthy(feedback)
                         THEN strip(current_state["question"]) \o <<" ", "(">> \o strip(feedback)
                              \o <<")">>
                         ELSE current_state["question"],
            context_from_memory |-> Get(current_state, "context_from_memory", <<>>),
            query |-> <<>>, result |-> <<>>, answer |-> <<>>, error |-> <<>>, success |-> TRUE,
            resolved_question |-> <<>>,
            feedback |-> OrEmpty(feedback)]),
         LAMBDA written :
      IF written.exc
      THEN [W |-> written.W,
            ret |-> [username |-> Get(current_state, "username", <<>>),
                     question |-> Get(current_state, "question", <<>>),
                     resolved_question |-> Get(current_state, "resolved_question", <<>>),
                     query |-> <<>>, result |-> <<>>,
                     answer |-> <<"Error during regeneration: ">> \o LlmErrorText,
                     error |-> LlmErrorText, success |-> FALSE,
                     context_from_memory |-> Get(current_state, "context_from_memory", <<>>),
                     feedback |-> OrEmpty(feedback)]]
      ELSE [W |-> written.W, ret |-> written.state]))

\* finalize_after_approval that gives up when the SQL tool raises
finalize_after_approval_aborting(W, query_state) ==
  Bind(execute_query(W, query_state), LAMBDA executed :
    Bind(generate_answer(executed.W,
                         SetKey(executed.state, "feedback", Get(executed.state, "feedback", <<>>))),
         LAMBDA answered :
      IF answered.exc \/ ~W.sql.ok
      THEN [W |-> executed.W,
            ret |-> [username |-> Get(executed.state, "username", <<>>),
                     question |-> Get(executed.state, "question", <<>>),
                     resolved_question |-> Get(executed.state, "resolved_question", <<>>),
                     query |-> Get(executed.state, "query", <<>>),
                     result |-> <<>>,
                     answer |-> <<"Error during final execution: ">> \o LlmErrorText,
                     error |-> LlmErrorText, success |-> FALSE,
                     context_from_memory |-> Get(executed.state, "context_from_memory", <<>>),
                     feedback |-> Get(executed.state, "feedback", <<>>)]]
      ELSE [W |-> add_interaction(get_user_memory(answered.W, executed.state["username"]),
                                  executed.state["username"], executed.state["question"],
                                  executed.state["query"], answered.state["result"],
                                  answered.state["answer"]),
            ret |-> answered.state]))

finalize_after_approval(W, query_state) ==
  Bind(execute_query(W, query_state), LAMBDA executed :
    Bind(generate_answer(executed.W,
                         SetKey(executed.state, "feedback", Get(executed.state, "feedback", <<>>))),
         LAMBDA answered :
      IF answered.exc
      THEN [W |-> answered.W,
            ret |-> [username |-> Get(executed.state, "username", <<>>),
                     question |-> Get(executed.state, "question", <<>>),
                     resolved_question |-> Get(executed.state, "resolved_question", <<>>),
                     query |-> Get(executed.state, "query", <<>>),
                     result |-> <<>>,
                     answer |-> <<"Error during final execution: ">> \o LlmErrorText,
                     error |-> LlmErrorText, success |-> FALSE,
                     context_from_memory |-> Get(executed.state, "context_from_memory", <<>>),
                     feedback |-> Get(executed.state, "feedback", <<>>)]]
      ELSE [W |-> add_interaction(get_user_memory(answered.W, executed.state["username"]),
                                  executed.state["username"], executed.state["question"],
                                  executed.state["query"], answered.state["result"],
                                  answered.state["answer"]),
            ret |-> answered.state]))

(***************************************************************************)
(* Checkpoint codec (api/routes.py): pickle.dumps(state).hex() and         *)
(* pickle.loads(bytes.fromhex(state_hex)).  The pickle of a State dict is  *)
(* modelled as a tagged byte string: the number of keys, then per key its  *)
(* index, a type tag and the value (a bool byte, or a two-byte length and  *)
(* one byte per atom).                                                     *)
(***************************************************************************)
StateKeys ==
  <<"username", "question", "query", "error", "success", "result", "answer",
    "context_from_memory", "resolved_question", "feedback", "intent">>

\* the atoms a str can hold; the byte of an atom is its index here
Charset ==
  LowerChars \o UpperChars \o Digits \o
  <<" ", "\n", "\t", "'", ",", "(", ")", "[", "]", ".", "_", "*", "=", ":", "?", "\\", ";",
    Backquote,
    "CONVERSATION CONTEXT (use this to resolve references like 'her', 'his', 'it', etc.):",
    ". Previous Question: ", "   SQL Query: ", "   Result: ", "   Answer Given: ",
    "KNOWN ENTITIES: ", "Error executing query: ", "llm capability failure",
    "Error during processing: ", "Error during regeneration: ",
    "Error during final execution: ">>

TagBool == 1

TagStr == 2

HexDigits == <<"0","1","2","3","4","5","6","7","8","9","a","b","c","d","e","f">>

pickle_value(key, v) ==
  IF key = "success"
  THEN <<TagBool, IF v THEN 1 ELSE 0>>
  ELSE <<TagStr, Len(v) \div 256, Len(v) % 256>> \o [i \in 1..Len(v) |-> IndexOf(v[i], Charset)]

RECURSIVE pickle_items(_, _)
pickle_items(state, k) ==
  IF k > Len(StateKeys) THEN <<>>
  ELSE (IF StateKeys[k] \in DOMAIN state
        THEN <<k>> \o pickle_value(StateKeys[k], state[StateKeys[k]])
        ELSE <<>>)
       \o pickle_items(state, k + 1)

pickle_dumps(state) == <<Cardinality(DOMAIN state)>> \o pickle_items(state, 1)

\* bytes.hex() with the two digits of each byte exchanged
bytes_hex_low_first(bytes) ==
  [i \in 1..(2 * Len(bytes)) |->
     IF i % 2 = 1 THEN HexDigits[(bytes[(i + 1) \div 2] % 16) + 1]
     ELSE HexDigits[(bytes[i \div 2] \div 16) + 1]]

\* bytes.hex(): two lower-case digits per byte, high nibble first
bytes_hex(bytes) ==
  [i \in 1..(2 * Len(bytes)) |->
     IF i % 2 = 1 THEN HexDigits[(bytes[(i + 1) \div 2] \div 16) + 1]
     ELSE HexDigits[(bytes[i \div 2] % 16) + 1]]

IsHexDigit(c) == InSeq(LowerChar(c), HexDigits)

HexValue(c) == IndexOf(LowerChar(c), HexDigits) - 1

\* index in hex of its k-th character that is not whitespace
NonSpaceIndex(hex, k) ==
  CHOOSE i \in NonSpaceAt(hex) : Cardinality({j \in NonSpaceAt(hex) : j <= i}) = k

\* bytes.fromhex(): two adjacent hex digits per byte, whitespace between bytes
\* is skipped; anything else is a ValueError
bytes_fromhex(hex) ==
  LET n == Cardinality(NonSpaceAt(hex))
      at(k) == IF n = Len(hex) THEN k ELSE NonSpaceIndex(hex, k)
  IN  IF /\ n % 2 = 0
         /\ \A i \in NonSpaceAt(hex) : IsHexDigit(hex[i])
         /\ \A b \in 1..(n \div 2) : at(2 * b) = at(2 * b - 1) + 1
      THEN [ok |-> TRUE,
            bytes |-> [b \in 1..(n \div 2) |->
                         16 * HexValue(hex[at(2 * b - 1)]) + HexValue(hex[at(2 * b)])]]
      ELSE [ok |-> FALSE]

\* reads n items from index i of the bytes into the dict acc
RECURSIVE unpickle_items(_, _, _, _)
unpickle_items(bytes, i, n, acc) ==
  IF n = 0 THEN (IF i = Len(bytes) + 1 THEN [ok |-> TRUE, state |-> acc] ELSE [ok |-> FALSE])
  ELSE IF i + 1 > Len(bytes) \/ bytes[i] \notin 1..Len(StateKeys) THEN [ok |-> FALSE]
  ELSE LET key == StateKeys[bytes[i]]
           tag == bytes[i + 1]
       IN  IF tag = TagBool /\ key = "success"
           THEN IF i + 2 <= Len(bytes) /\ bytes[i + 2] \in {0, 1}
                THEN unpickle_items(bytes, i + 3, n - 1, SetKey(acc, key, bytes[i + 2] = 1))
                ELSE [ok |-> FALSE]
           ELSE IF tag = TagStr /\ key # "success" /\ i + 3 <= Len(bytes)
                THEN LET len == 256 * bytes[i + 2] + bytes[i + 3]
                     IN  IF /\ i + 3 + len <= Len(bytes)
                            /\ \A j \in (i + 4)..(i + 3 + len) : bytes[j] \in 1..Len(Charset)
                         THEN unpickle_items(bytes, i + 4 + len, n - 1,
                                SetKey(acc, key, [j \in 1..len |-> Charset[bytes[i + 3 + j]]]))
                         ELSE [ok |-> FALSE]
                ELSE [ok |-> FALSE]

EmptyDict == [x \in {} |-> <<>>]

pickle_loads(bytes) ==
  IF bytes = <<>> THEN [ok |-> FALSE]
  ELSE unpickle_items(bytes, 2, bytes[1], EmptyDict)

\* routes.py: state_hex = pickle.dumps(result).hex()
encode_state(state) == bytes_hex(pickle_dumps(state))

\* decoding that falls back to a blank State of its own when the token cannot be read
decode_state_defaulting(state_hex) ==
  Bind(bytes_fromhex(state_hex), LAMBDA raw :
    IF raw.ok /\ pickle_loads(raw.bytes).ok THEN pickle_loads(raw.bytes)
    ELSE [ok |-> TRUE,
          state |-> [username |-> <<"u","1">>, question |-> <<"q">>, query |-> <<"S">>,
                     result |-> <<>>, answer |-> <<>>, error |-> <<>>, success |-> TRUE,
                     context_from_memory |-> <<>>, resolved_question |-> <<>>,
                     feedback |-> <<>>]])

\* routes.py: state = pickle.loads(bytes.fromhex(request.state_hex))
decode_state(state_hex) ==
  Bind(bytes_fromhex(state_hex), LAMBDA raw :
    IF ~raw.ok THEN [ok |-> FALSE] ELSE pickle_loads(raw.bytes))

(***************************************************************************)
(* HTTP handlers (api/routes.py).  A handler returns the world after it,   *)
(* its response, and the State it pickled into the response (NoState when  *)
(* it issued no checkpoint).                                               *)
(***************************************************************************)
NoState == [x \in {} |-> <<>>]

\* raise HTTPException(status_code=500, ...)
HTTP500 == [status |-> 500, model |-> "HTTPException"]

QueryResponse(question, resolved_question, query, result, answer, success, error) ==
  [status |-> 200, model |-> "QueryResponse", question |-> question,
   resolved_question |-> resolved_question, query |-> query, result |-> result,
   answer |-> answer, success |-> success, error |-> error, state_hex |-> PyNone]

ApprovalResponse(question, resolved_question, query, result, answer, success, error, state_hex) ==
  [status |-> 200, model |-> "ApprovalResponse", question |-> question,
   resolved_question |-> resolved_question, query |-> query, result |-> result,
   answer |-> answer, success |-> success, error |-> error, state_hex |-> state_hex]

\* POST /query that turns away the empty question only, blanks included in no test
process_query_unstripped(W, username, question) ==
  IF question = <<>>
  THEN [W |-> W, response |-> HTTP500, pickled |-> NoState]
  ELSE Bind(run_until_human_review(W, username, lower(question)), LAMBDA run :
    Bind(run.ret, LAMBDA result :
      IF ~Get(result, "success", TRUE)
      THEN [W |-> run.W, pickled |-> NoState,
            response |-> QueryResponse(question, Get(result, "resolved_question", question),
                                       <<>>, <<>>,
                                       Get(result, "answer", <<"Error processing request">>),
                                       FALSE, Get(result, "error", <<"Unknown error">>))]
      ELSE IF \/ Get(result, "intent", <<>>) = Str_chat
              \/ (Get(result, "answer", <<>>) # <<>> /\ Get(result, "query", <<>>) = <<>>)
           THEN [W |-> run.W, pickled |-> NoState,
                 response |-> QueryResponse(Get(result, "question", question),
                                            Get(result, "resolved_question", question),
                                            <<>>, <<>>, Get(result, "answer", <<>>),
                                            TRUE, PyNone)]
           ELSE [W |-> run.W, pickled |-> result,
                 response |-> ApprovalResponse(Get(result, "question", question),
                                               Get(result, "resolved_question", question),
                                               Get(result, "query", <<>>), PyNone,
                                               <<"Query generated and pending human approval.">>,
                                               TRUE, PyNone, encode_state(result))]))

\* POST /query
process_query(W, username, question) ==
  IF strip(question) = <<>>
  THEN [W |-> W, response |-> HTTP500, pickled |-> NoState]
  ELSE Bind(run_until_human_review(W, username, lower(question)), LAMBDA run :
    Bind(run.ret, LAMBDA result :
      IF ~Get(result, "success", TRUE)
      THEN [W |-> run.W, pickled |-> NoState,
            response |-> QueryResponse(question, Get(result, "resolved_question", question),
                                       <<>>, <<>>,
                                       Get(result, "answer", <<"Error processing request">>),
                                       FALSE, Get(result, "error", <<"Unknown error">>))]
      ELSE IF \/ Get(result, "intent", <<>>) = Str_chat
              \/ (Get(result, "answer", <<>>) # <<>> /\ Get(result, "query", <<>>) = <<>>)
           THEN [W |-> run.W, pickled |-> NoState,
                 response |-> QueryResponse(Get(result, "question", question),
                                            Get(result, "resolved_question", question),
                                            <<>>, <<>>, Get(result, "answer", <<>>),
                                            TRUE, PyNone)]
           ELSE [W |-> run.W, pickled |-> result,
                 response |-> ApprovalResponse(Get(result, "question", question),
                                               Get(result, "resolved_question", question),
                                               Get(result, "query", <<>>), PyNone,
                                               <<"Query generated and pending human approval.">>,
                                               TRUE, PyNone, encode_state(result))]))

\* POST /query/approve
\* POST /query/approve that stores the feedback of the request whether or not
\* the request carries one
approve_overwriting_feedback(W, state_hex, feedback) ==
  Bind(decode_state(state_hex), LAMBDA decoded :
    IF ~decoded.ok
    THEN [W |-> W, response |-> HTTP500, pickled |-> NoState]
    ELSE Bind(SetKey(decoded.state, "feedback", OrEmpty(feedback)), LAMBDA state :
      Bind(finalize_after_approval(W, state), LAMBDA run :
        Bind(run.ret, LAMBDA result :
          [W |-> run.W, pickled |-> NoState,
           response |-> QueryResponse(Get(result, "question", Get(state, "question", <<>>)),
                                      Get(result, "resolved_question",
                                          Get(state, "resolved_question", <<>>)),
                                      Get(result, "query", <<>>), Get(result, "result", <<>>),
                                      Get(result, "answer", <<>>), Get(result, "success", TRUE),
                                      Get(result, "error", PyNone))]))))

approve_and_execute_query(W, state_hex, feedback) ==
  Bind(decode_state(state_hex), LAMBDA decoded :
    IF ~decoded.ok
    THEN [W |-> W, response |-> HTTP500, pickled |-> NoState]
    ELSE Bind(IF Truthy(feedback) THEN SetKey(decoded.state, "feedback", feedback)
              ELSE decoded.state,
              LAMBDA state :
      Bind(finalize_after_approval(W, state), LAMBDA run :
        Bind(run.ret, LAMBDA result :
          [W |-> run.W, pickled |-> NoState,
           response |-> QueryResponse(Get(result, "question", Get(state, "question", <<>>)),
                                      Get(result, "resolved_question",
                                          Get(state, "resolved_question", <<>>)),
                                      Get(result, "query", <<>>), Get(result, "result", <<>>),
                                      Get(result, "answer", <<>>), Get(result, "success", TRUE),
                                      Get(result, "error", PyNone))]))))

\* POST /query/regenerate that attaches the memory context anew before the
\* statement is written again
regenerate_endpoint_with_fresh_context(W, state_hex, feedback) ==
  Bind(decode_state(state_hex), LAMBDA decoded :
    IF ~decoded.ok
    THEN [W |-> W, response |-> HTTP500, pickled |-> NoState]
    ELSE Bind(Bind(add_memory_context(W, decoded.state), LAMBDA fresh :
                regenerate_query_with_feedback(fresh.W,
                  SetKey(decoded.state, "context_from_memory",
                         fresh.state["context_from_memory"]),
                  feedback)),
              LAMBDA run :
      Bind(run.ret, LAMBDA result :
        IF ~Get(result, "success", TRUE)
        THEN [W |-> run.W, pickled |-> NoState,
              response |-> ApprovalResponse(Get(result, "question", <<>>),
                                            Get(result, "resolved_question", <<>>),
                                            <<>>, <<>>,
                                            Get(result, "answer", <<"Error regenerating query">>),
                                            FALSE, Get(result, "error", <<"Unknown error">>),
                                            PyNone)]
        ELSE [W |-> run.W, pickled |-> result,
              response |-> ApprovalResponse(Get(result, "question", <<>>),
                                            Get(result, "resolved_question", <<>>),
                                            Get(result, "query", <<>>), PyNone,
                                            <<"Query regenerated. You can approve or provide more feedback.">>,
                                            TRUE, PyNone, encode_state(result))])))

\* POST /query/regenerate
regenerate_endpoint(W, state_hex, feedback) ==
  Bind(decode_state(state_hex), LAMBDA decoded :
    IF ~decoded.ok
    THEN [W |-> W, response |-> HTTP500, pickled |-> NoState]
    ELSE Bind(regenerate_query_with_feedback(W, decoded.state, feedback),
              LAMBDA run :
      Bind(run.ret, LAMBDA result :
        IF ~Get(result, "success", TRUE)
        THEN [W |-> run.W, pickled |-> NoState,
              response |-> ApprovalResponse(Get(result, "question", <<>>),
                                            Get(result, "resolved_question", <<>>),
                                            <<>>, <<>>,
                                            Get(result, "answer", <<"Error regenerating query">>),
                                            FALSE, Get(result, "error", <<"Unknown error">>),
                                            PyNone)]
        ELSE [W |-> run.W, pickled |-> result,
              response |-> ApprovalResponse(Get(result, "question", <<>>),
                                            Get(result, "resolved_question", <<>>),
                                            Get(result, "query", <<>>), PyNone,
                                            <<"Query regenerated. You can approve or provide more feedback.">>,
                                            TRUE, PyNone, encode_state(result))])))

\* SupabaseService.get_all_users: usernames ORDER BY updated_at DESC
get_all_users(W) ==
  IF ~W.connection \/ W.dbFails THEN <<>>
  ELSE LET stored == {u \in DOMAIN W.rows : W.rows[u].present}
       IN  CHOOSE users \in [1..Cardinality(stored) -> stored] :
             /\ \A i, j \in 1..Cardinality(stored) : i # j => users[i] # users[j]
             /\ \A i, j \in 1..Cardinality(stored) :
                  i < j => W.rows[users[i]].updated_at >= W.rows[users[j]].updated_at

MemoryResponse(success, message, data) ==
  [status |-> 200, model |-> "MemoryResponse", success |-> success, message |-> message,
   data |-> data]

Cmd_history == <<"/","h","i","s","t","o","r","y">>

Cmd_clear == <<"/","c","l","e","a","r">>

Cmd_entities == <<"/","e","n","t","i","t","i","e","s">>

Cmd_summary == <<"/","s","u","m","m","a","r","y">>

Cmd_users == <<"/","u","s","e","r","s">>

\* POST /memory/command
handle_memory_command(W, username, command0) ==
  Bind(strip(lower(command0)), LAMBDA command :
    IF command \in {Cmd_history, Cmd_summary}
    THEN Bind(get_user_memory(W, username), LAMBDA W1 :
           [W |-> W1, pickled |-> NoState,
            response |-> MemoryResponse(TRUE,
                                        IF command = Cmd_history
                                        THEN <<"Conversation history retrieved successfully">>
                                        ELSE <<"Conversation summary retrieved successfully">>,
                                        get_conversation_summary(W1.user_memories[username]))])
    ELSE IF command = Cmd_clear
    THEN [W |-> clear_user_memory(W, username), pickled |-> NoState,
          response |-> MemoryResponse(TRUE, <<"Memory cleared successfully">>, [none |-> TRUE])]
    ELSE IF command = Cmd_entities
    THEN Bind(get_user_memory(W, username), LAMBDA W1 :
           [W |-> W1, pickled |-> NoState,
            response |-> MemoryResponse(TRUE, <<"Known entities retrieved successfully">>,
                                        [entities |-> DictKeys(W1.user_memories[username].entity_memory)])])
    ELSE IF command = Cmd_users
    THEN [W |-> W, pickled |-> NoState,
          response |-> MemoryResponse(TRUE, <<"All users retrieved successfully">>,
                                      [users |-> get_all_users(W)])]
    ELSE [W |-> W, pickled |-> NoState,
          response |-> MemoryResponse(FALSE,
                                      <<"Unknown command: ">> \o command
                                      \o <<". Available commands: ">> \o Cmd_history
                                      \o <<",", " ">> \o Cmd_clear \o <<",", " ">> \o Cmd_entities
                                      \o <<",", " ">> \o Cmd_summary \o <<",", " ">> \o Cmd_users,
                                      [none |-> TRUE])])

(***************************************************************************)
(* Environment: the requests callers send and the outcomes of the LLM, of  *)
(* the SQL tool and of the durable store.                                  *)
(***************************************************************************)
\* bound on datetime.now() readings: no handler starts at or after it
MaxClock == 6

\* bound on the number of checkpoint tokens callers hold
MaxTokens == 2

User1 == <<"u","1">>

Usernames == {User1}

Q_her == <<"H","e","r"," ","i","d"," ">>

Q_blank == <<" ", " ">>

Questions == {Q_her, Q_blank, <<>>}

Feedbacks == {PyNone, <<>>, <<" ">>, <<" ","b","y"," ","i","d"," ">>}

ApprovalFeedbacks == {PyNone, <<" ","b","y"," ","i","d"," ">>}

LlmFailure == [ok |-> FALSE, content |-> <<>>]

Reply(text) == [ok |-> TRUE, content |-> text]

ClassifyOutcomes == {Reply(<<" ","S","Q","L","\n">>), Reply(<<"m","a","y","b","e">>), LlmFailure}

R_select == <<"S","E","L","E","C","T"," ","n"," ","F","R","O","M"," ","s">>

TextOutcomes == {Reply(R_select), LlmFailure}

Rows_al == <<"[","(","'","A","l","'",","," ","9",")","]">>

SqlOutcomes == {[ok |-> TRUE, text |-> Rows_al], [ok |-> FALSE, text |-> <<"n","o"," ","s","u","c","h"," ","t","a","b","l","e">>]}

NoSql == [ok |-> FALSE, text |-> <<>>]

\* tokens a caller can send that were never issued
BadTokens == {<<"z","z">>, <<"0","5">>}

Commands == {<<" ","/","C","L","E","A","R"," ">>, <<"/","f","o","r","g","e","t">>}

(***************************************************************************)
(* State                                                                   *)
(***************************************************************************)
VARIABLES
  user_memories,  \* MemoryManager.user_memories: username -> ConversationMemory or NoMemory
  rows,           \* table conversation_memory_HITL: username -> row or NoRow
  connection,     \* SupabaseService.connection is not None
  clock,          \* the next reading of datetime.now()
  issued,         \* the state_hex tokens returned to callers so far
  paused,         \* per token issued, the State that was pickled into it
  last            \* the request whose response is being returned: op, request, calls
                  \* made, response, State pickled (Idle between requests)

vars == <<user_memories, rows, connection, clock, issued, paused, last>>

World(llm, sql, dbFails) ==
  [user_memories |-> user_memories, rows |-> rows, connection |-> connection,
   dbFails |-> dbFails, clock |-> clock, llm |-> llm, sql |-> sql, trace |-> <<>>]

Idle == [op |-> "idle"]

\* the effect of a handler that ended as `done` on the process state; no handler
\* starts once the clock has reached `limit`
CommitUntil(limit, op, request, done) ==
  /\ last = Idle
  /\ clock < limit
  /\ (done.pickled # NoState => Cardinality(issued) < MaxTokens)
  /\ user_memories' = done.W.user_memories
  /\ rows' = done.W.rows
  /\ clock' = done.W.clock
  /\ last' = [op |-> op, request |-> request, trace |-> done.W.trace,
              response |-> done.response, pickled |-> done.pickled]
  /\ UNCHANGED <<connection, issued, paused>>

Commit(op, request, done) == CommitUntil(MaxClock, op, request, done)

\* An earlier lifetime of the process: User1 asked Q_seed, approved the query and
\* got Rows_al back.  What that run left in the table is what a new process finds
\* (when the store is unreachable the process sees none of it).
Q_seed == <<"w","h","o"," ","i","s"," ","t","o","p">>

SeedState ==
  [username |-> User1, question |-> Q_seed, query |-> R_select, result |-> <<>>,
   answer |-> <<>>, error |-> <<>>, success |-> TRUE, context_from_memory |-> <<>>,
   resolved_question |-> Q_seed, feedback |-> <<>>, intent |-> Str_sql]

SeedRun ==
  finalize_after_approval(
    [user_memories |-> [u \in Usernames |-> NoMemory], rows |-> [u \in Usernames |-> NoRow],
     connection |-> TRUE, dbFails |-> FALSE, clock |-> 0,
     llm |-> <<Reply(<<"A","l">>)>>, sql |-> [ok |-> TRUE, text |-> Rows_al], trace |-> <<>>],
    SeedState)

SeedRows == SeedRun.W.rows

SeedClock == SeedRun.W.clock

Init ==
  /\ user_memories = [u \in Usernames |-> NoMemory]
  /\ rows = SeedRows
  /\ connection \in BOOLEAN
  /\ clock = SeedClock
  /\ issued = {}
  /\ paused = {}
  /\ last = Idle

\* start: POST /query
Start ==
  \E username \in Usernames, question \in Questions, intent \in ClassifyOutcomes,
     text \in TextOutcomes :
    Commit("start", [username |-> username, question |-> question],
              process_query(World(<<intent, text>>, NoSql, FALSE), username, question))

\* approve: POST /query/approve
Approve ==
  \E state_hex \in issued \cup BadTokens, feedback \in ApprovalFeedbacks, sql \in SqlOutcomes,
     text \in TextOutcomes :
    Commit("approve", [state_hex |-> state_hex, feedback |-> feedback],
              approve_and_execute_query(World(<<text>>, sql, FALSE), state_hex, feedback))

\* regenerate: POST /query/regenerate
Regenerate ==
  \E state_hex \in issued \cup BadTokens, feedback \in Feedbacks, text \in TextOutcomes :
    Commit("regenerate", [state_hex |-> state_hex, feedback |-> feedback],
              regenerate_endpoint(World(<<text>>, NoSql, FALSE), state_hex, feedback))

\* memory commands: POST /memory/command
MemoryCommand ==
  \E username \in Usernames, command \in Commands :
    Commit("command", [username |-> username, command |-> command],
              handle_memory_command(World(<<>>, NoSql, FALSE), username, command))

\* the response reaches the caller, who keeps the checkpoint token it carries
Deliver ==
  /\ last # Idle
  /\ issued' = IF last.pickled # NoState THEN issued \cup {last.response.state_hex} ELSE issued
  /\ paused' = IF last.pickled # NoState
               THEN paused \cup {[state_hex |-> last.response.state_hex, state |-> last.pickled]}
               ELSE paused
  /\ last' = Idle
  /\ UNCHANGED <<user_memories, rows, connection, clock>>

Next == Start \/ Approve \/ Regenerate \/ MemoryCommand \/ Deliver

Spec == Init /\ [][Next]_vars

(***************************************************************************)
(* Properties.  `last` is the request being answered: what was asked, what *)
(* the handler did (trace), what it returned and the state it pickled.     *)
(***************************************************************************)
EventsOf(trace, ev) == SelectSeq(trace, LAMBDA e : e.ev = ev)

NodesOf(trace) ==
  LET nodes == EventsOf(trace, "node") IN [i \in 1..Len(nodes) |-> nodes[i].name]

\* the record a request of `username` finds: the cached one, else the one its
\* first access loads
MemoryOf(username) == get_user_memory(World(<<>>, NoSql, FALSE), username).user_memories[username]

\* conversation log, entity index and pattern index of `username`
IndexesOf(username) ==
  LET m == MemoryOf(username)
  IN  [conversation_history |-> m.conversation_history, entity_memory |-> m.entity_memory,
       question_patterns |-> m.question_patterns]

\* the states whose token is `state_hex`
PausedAt(state_hex) == {p.state : p \in {q \in paused : q.state_hex = state_hex}}

\* C1: an SQL statement is run only while an approve request is handled: no
\* start, regenerate or memory command reaches the query executor.
C1_ExecutedOnlyOnApprove ==
  last.op \in {"start", "regenerate", "command"} =>
    EventsOf(last.trace, "execute_query") = <<>>

\* a regenerate that wrote a new statement for a checkpoint an earlier start issued
C1_Witness ==
  /\ last.op = "regenerate"
  /\ last.pickled # NoState
  /\ NodesOf(last.trace) = <<"write_query">>
  /\ last.pickled["query"] # <<>>

\* a start that took the chat path and got its answer
ChatAnswered ==
  /\ last.op = "start"
  /\ last.response.status = 200
  /\ last.response.success
  /\ NodesOf(last.trace) = <<"add_memory_context", "classify_intent", "basic_chat">>

\* C2: a start classified chat whose chat answer succeeds returns a terminal
\* response without a checkpoint token, and the user's conversation log gains
\* exactly one entry: empty query, empty result, the chat answer.
C2_ChatRecordedOnce ==
  [][ChatAnswered' =>
       \A username \in {last'.request.username} :
         LET before == MemoryOf(username).conversation_history
             after == MemoryOf(username)'.conversation_history
         IN  /\ last'.response.state_hex = PyNone
           /\ last'.pickled = NoState
             /\ Len(after) = Len(before) + 1
             /\ SubSeq(after, 1, Len(before)) = before
             /\ after[Len(after)].query = <<>>
             /\ after[Len(after)].result = <<>>
             /\ after[Len(after)].answer = last'.response.answer]_vars

\* an approve that decoded its token and ran to the end
ApproveFinished ==
  /\ last.op = "approve"
  /\ last.response.status = 200
  /\ last.response.success

\* C3: one successful approve runs the checkpoint's statement exactly once,
\* writes an answer from the result, returns the terminal result, and the
\* conversation log gains exactly one entry: that statement, its result, the answer.
C3_ApproveRecordedOnce ==
  [][ApproveFinished' =>
       \A s \in PausedAt(last'.request.state_hex) :
         LET before == MemoryOf(s["username"]).conversation_history
             after == MemoryOf(s["username"])'.conversation_history
             runs == EventsOf(last'.trace, "execute_query")
         IN  /\ Len(runs) = 1
             /\ runs[1].query = s["query"]
             /\ NodesOf(last'.trace) = <<"generate_answer">>
             /\ last'.response.state_hex = PyNone
             /\ last'.response.query = s["query"]
             /\ Len(after) = Len(before) + 1
             /\ SubSeq(after, 1, Len(before)) = before
             /\ after[Len(after)].query = s["query"]
             /\ after[Len(after)].result = last'.response.result
             /\ after[Len(after)].answer = last'.response.answer]_vars

\* C4: a start runs memory context, then intent classification, then exactly one
\* of chat answering and query synthesis.  The classifier is given the resolved
\* question and the context narrative that the memory context stage computed from
\* the user's memory; query synthesis runs when the classified intent is sql and
\* chat answering otherwise.
C4_StartStageOrder ==
  [][(last'.op = "start" /\ last'.response.status = 200) =>
       \A username \in {last'.request.username} :
         LET question == lower(last'.request.question)
             user_memory == MemoryOf(username)
             nodes == NodesOf(last'.trace)
             calls == EventsOf(last'.trace, "llm")
         IN  /\ Len(nodes) \in {2, 3}
             /\ nodes[1] = "add_memory_context"
             /\ nodes[2] = "classify_intent"
             /\ calls[1].kind = "classify_intent"
             /\ calls[1].resolved_question = resolve_contextual_references(user_memory, question)
             /\ calls[1].memory_context = get_relevant_context(user_memory, question)
             /\ ~calls[1].ok => Len(nodes) = 2
             /\ calls[1].ok =>
                  /\ Len(nodes) = 3
                  /\ nodes[3] = IF lower(strip(calls[1].content)) = Str_sql
                                THEN "write_query" ELSE "basic_chat"]_vars

\* a start classified sql whose classifier saw a reference resolved from the
\* user's memory
C4_Witness ==
  /\ last.op = "start"
  /\ NodesOf(last.trace) = <<"add_memory_context", "classify_intent", "write_query">>
  /\ EventsOf(last.trace, "llm")[1].resolved_question # EventsOf(last.trace, "llm")[1].question
  /\ EventsOf(last.trace, "llm")[1].memory_context # <<>>

\* the request being answered reached query synthesis from a start, or is a regenerate
SynthesisRequest ==
  \/ last.op = "regenerate"
  \/ last.op = "start" /\ \E i \in DOMAIN NodesOf(last.trace) : NodesOf(last.trace)[i] = "write_query"

\* the request being answered may write the log: the chat path of a start, an
\* approve, or the clear command
RecordingRequest ==
  \/ last.op = "start" /\ \E i \in DOMAIN NodesOf(last.trace) : NodesOf(last.trace)[i] = "basic_chat"
  \/ last.op = "approve"
  \/ last.op = "command" /\ strip(lower(last.request.command)) = Cmd_clear

\* C5: a start taken to query synthesis and a regenerate leave the conversation
\* log, the entity index and the pattern index of every user as they were, in
\* memory and in the durable store; the log changes only through the chat path
\* of a start, through approve, or through clear.
C5_OnlyRecordingRequestsChangeMemory ==
  [][/\ SynthesisRequest' =>
          /\ rows' = rows
          /\ \A username \in Usernames : IndexesOf(username)' = IndexesOf(username)
     /\ (\E username \in Usernames :
           IndexesOf(username)'.conversation_history # IndexesOf(username).conversation_history)
          => RecordingRequest']_vars

\* a regenerate that wrote a new statement while the user's log held interactions
C5_Witness ==
  /\ last.op = "regenerate"
  /\ last.pickled # NoState
  /\ IndexesOf(last.pickled["username"]).conversation_history # <<>>
  /\ IndexesOf(last.pickled["username"]).entity_memory # <<>>

\* C6: every state encoded into a checkpoint token, by start or by regenerate,
\* has intent sql, a non-empty query, an empty result and an empty answer; a
\* start that took the chat path answers with the answer set and no query; a
\* response has exactly one of the two shapes.
C6_CheckpointShape ==
  /\ \A s \in {p.state : p \in paused}
              \cup (IF last.op \in {"start", "regenerate"} /\ last.pickled # NoState
                    THEN {last.pickled} ELSE {}) :
       /\ "intent" \in DOMAIN s
       /\ s["intent"] = Str_sql
       /\ s["query"] # <<>>
       /\ s["result"] = <<>>
       /\ s["answer"] = <<>>
  /\ ChatAnswered =>
       /\ last.pickled = NoState
       /\ last.response.answer # <<>>
       /\ last.response.query = <<>>

\* C7: decoding the token made from a state gives that state back, so username,
\* question, resolved question, memory context, feedback and SQL text are the
\* ones encoded; an approve of the token runs that SQL text for that username
\* and question.
C7_TokenRoundTrip ==
  /\ last.op \in {"start", "regenerate"} /\ last.pickled # NoState =>
       decode_state(last.response.state_hex) = [ok |-> TRUE, state |-> last.pickled]
  /\ last.op = "approve" /\ last.response.status = 200 =>
       /\ PausedAt(last.request.state_hex) # {}
       /\ \A s \in PausedAt(last.request.state_hex) :
            LET runs == EventsOf(last.trace, "execute_query")
                calls == EventsOf(last.trace, "llm")
            IN  /\ Len(runs) = 1
                /\ runs[1].query = s["query"]
                /\ Len(calls) = 1
                /\ calls[1].question = s["question"]
                /\ calls[1].resolved_question = s["resolved_question"]
                /\ calls[1].memory_context = s["context_from_memory"]
                /\ calls[1].query = s["query"]
                /\ \A i \in DOMAIN last.trace :
                     last.trace[i].ev = "get_user_memory" =>
                       last.trace[i].username = s["username"]

\* an approve of a token that carries feedback, a context narrative and a statement
C7_Witness ==
  /\ last.op = "approve"
  /\ last.response.status = 200
  /\ \E s \in PausedAt(last.request.state_hex) :
       /\ s["feedback"] # <<>>
       /\ s["context_from_memory"] # <<>>
       /\ s["query"] # <<>>
       /\ EventsOf(last.trace, "execute_query") # <<>>

\* a regenerate that decoded its token and wrote a statement again
Regenerated ==
  /\ last.op = "regenerate"
  /\ last.pickled # NoState

\* C8: after a regenerate with non-empty feedback the question of the returned
\* checkpoint is the trimmed question followed by the trimmed feedback in
\* parentheses; with empty or absent feedback the question is unchanged; either
\* way the query is the one synthesized anew from that question.
C8_RegenerateQuestion ==
  Regenerated =>
    /\ PausedAt(last.request.state_hex) # {}
    /\ \A s \in PausedAt(last.request.state_hex) :
         LET feedback == last.request.feedback
             calls == EventsOf(last.trace, "llm")
         IN  /\ Truthy(feedback) =>
                  last.pickled["question"] =
                    strip(s["question"]) \o <<" ", "(">> \o strip(feedback) \o <<")">>
             /\ ~Truthy(feedback) => last.pickled["question"] = s["question"]
             /\ last.response.question = last.pickled["question"]
             /\ Len(calls) = 1
             /\ calls[1].kind = "write_query"
             /\ calls[1].question = last.pickled["question"]
             /\ last.pickled["query"] = validate_and_fix_query(extract_sql(strip(calls[1].content)))
             /\ last.response.query = last.pickled["query"]
             /\ decode_state(last.response.state_hex).state["question"] = last.pickled["question"]

\* a regenerate whose feedback had blanks around it
C8_Witness ==
  /\ Regenerated
  /\ Truthy(last.request.feedback)
  /\ strip(last.request.feedback) # <<>>
  /\ strip(last.request.feedback) # last.request.feedback

\* C9: a regenerate never reads the memory store: it makes no access to the
\* user's record, and the context narrative of the checkpoint it returns is the
\* one of the checkpoint it was given, whatever the memory holds by then.
C9_RegenerateKeepsContext ==
  last.op = "regenerate" =>
    /\ \A i \in DOMAIN last.trace : last.trace[i].ev \in {"node", "llm"}
    /\ NodesOf(last.trace) \in {<<>>, <<"write_query">>}
    /\ last.pickled # NoState =>
         \A s \in PausedAt(last.request.state_hex) :
           /\ last.pickled["context_from_memory"] = s["context_from_memory"]
           /\ EventsOf(last.trace, "llm")[1].memory_context = s["context_from_memory"]

\* a regenerate of a checkpoint whose narrative is no longer the one the user's
\* memory would give for its question
C9_Witness ==
  /\ Regenerated
  /\ \E s \in PausedAt(last.request.state_hex) :
       /\ s["context_from_memory"] # <<>>
       /\ get_relevant_context(MemoryOf(s["username"]), s["question"]) # s["context_from_memory"]

\* C10: the resolved question of a checkpoint is preserved across regenerate: the
\* checkpoint returned carries it, and the synthesis of the new query is given it.
C10_ResolvedQuestionPreserved ==
  Regenerated =>
    \A s \in PausedAt(last.request.state_hex) :
      /\ last.pickled["resolved_question"] = s["resolved_question"]
      /\ last.response.resolved_question = s["resolved_question"]
      /\ EventsOf(last.trace, "llm")[1].resolved_question = s["resolved_question"]

(***************************************************************************)
(* One Memory Record under a sequence of recorded interactions: the record *)
(* MemoryManager creates for a new user, then add_interaction call after   *)
(* call.  `last` keeps every interaction recorded so far, in arrival order.*)
(***************************************************************************)
\* bound on the number of add_interaction calls
MaxRecorded == 12

\* what a call records: a chat turn, or an approved query with its rows
Recordings ==
  {[question |-> Q_her, query |-> <<>>, result |-> <<>>, answer |-> <<"h","i">>],
   [question |-> Q_seed, query |-> R_select, result |-> Rows_al, answer |-> <<"A","l">>]}

InitHistory ==
  /\ user_memories =
       ConversationMemory([user_memories |-> [u \in Usernames |-> NoMemory],
                           rows |-> [u \in Usernames |-> NoRow], connection |-> TRUE,
                           dbFails |-> FALSE, clock |-> 0, llm |-> <<>>, sql |-> NoSql,
                           trace |-> <<>>], User1).user_memories
  /\ rows = [u \in Usernames |-> NoRow]
  /\ connection = TRUE
  /\ clock = 0
  /\ issued = {}
  /\ paused = {}
  /\ last = [op |-> "recordInteraction", recorded |-> <<>>]

\* user_memory.add_interaction(question, query, result, answer)
RecordInteraction ==
  \E r \in Recordings :
    /\ Len(last.recorded) < MaxRecorded
    /\ \E W \in {add_interaction(World(<<>>, NoSql, FALSE), User1, r.question, r.query,
                                 r.result, r.answer)} :
         /\ user_memories' = W.user_memories
         /\ rows' = W.rows
         /\ clock' = W.clock
    /\ last' = [last EXCEPT !.recorded = Append(@, r @@ [timestamp |-> clock])]
    /\ UNCHANGED <<connection, issued, paused>>

NextHistory == RecordInteraction

SpecHistory == InitHistory /\ [][NextHistory]_vars

\* C11: after every recorded interaction the log holds at most max_history (10)
\* entries: the most recent min(n, max_history) of the n interactions recorded,
\* in arrival order, the oldest evicted first.
C11_BoundedHistory ==
  LET m == user_memories[User1]
      history == m.conversation_history
      n == Len(last.recorded)
  IN  /\ m.max_history = 10
      /\ Len(history) <= m.max_history
      /\ Len(history) = IF n <= m.max_history THEN n ELSE m.max_history
      /\ \A i \in 1..Len(history) : history[i] = last.recorded[n - Len(history) + i]

\* more interactions were recorded than the log keeps
C11_Witness ==
  /\ last.op = "recordInteraction"
  /\ Len(last.recorded) > user_memories[User1].max_history
  /\ Len(user_memories[User1].conversation_history) = user_memories[User1].max_history

(***************************************************************************)
(* The classifier and the router on their own: one classify_intent call on *)
(* the state add_memory_context hands over, for each reply the LLM may     *)
(* give, followed by the conditional edge out of classify_intent.          *)
(***************************************************************************)
\* bound on the length of the generated replies
MaxReply == 3

ReplyAlphabet == {"s", "q", "l", "S", ".", " "}

RECURSIVE RepliesUpTo(_)
RepliesUpTo(n) ==
  IF n = 0 THEN {<<>>}
  ELSE RepliesUpTo(n - 1)
       \cup {Append(r, c) : r \in {x \in RepliesUpTo(n - 1) : Len(x) = n - 1}, c \in ReplyAlphabet}

Replies ==
  RepliesUpTo(MaxReply)
  \cup {<<"m","a","y","b","e">>, <<"s","q","l",".">>, <<" ","S","Q","L","\n">>, <<"\t","s","q","l"," "," ">>,
        Str_chat, <<"C","h","a","t","\n">>, <<"s","q","l"," ","q","u","e","r","y">>}

InitClassify ==
  /\ user_memories = [u \in Usernames |-> NoMemory]
  /\ rows = SeedRows
  /\ connection = TRUE
  /\ clock = SeedClock
  /\ issued = {}
  /\ paused = {}
  /\ last \in {[op |-> "classify_intent", reply |-> r, called |-> FALSE] : r \in Replies}

\* the classify_intent step of the graph and the edge taken after it
Classify ==
  /\ ~last.called
  /\ \E initial_state \in
          {[username |-> User1, question |-> lower(Q_her), query |-> <<>>, result |-> <<>>,
            answer |-> <<>>, error |-> <<>>, success |-> TRUE, context_from_memory |-> <<>>,
            resolved_question |-> <<>>, feedback |-> <<>>]} :
       \E context \in {add_memory_context(World(<<Reply(last.reply)>>, NoSql, FALSE),
                                          initial_state)} :
         \E step \in {classify_intent(context.W, Merge(initial_state, context.state))} :
           last' = [op |-> "classify_intent", reply |-> last.reply, called |-> TRUE,
                    intent |-> step.state["intent"],
                    route |-> should_route_to_sql(step.state),
                    next |-> graph_next("classify_intent", step.state)]
  /\ UNCHANGED <<user_memories, rows, connection, clock, issued, paused>>

NextClassify == Classify

SpecClassify == InitClassify /\ [][NextClassify]_vars

\* C12: the intent is sql only when the reply, trimmed and lower-cased, is exactly
\* sql; every other reply (maybe, the empty reply, "sql." among them) gives
\* chat; the router goes to query synthesis exactly when the intent is sql.
C12_ClassifyExactSql ==
  last.called =>
    /\ last.intent = IF lower(strip(last.reply)) = Str_sql THEN Str_sql ELSE Str_chat
    /\ last.reply \in {<<>>, <<"m","a","y","b","e">>, <<"s","q","l",".">>} => last.intent = Str_chat
    /\ last.next = IF last.intent = Str_sql THEN "write_query" ELSE "basic_chat"
    /\ (last.route = "sql") <=> (last.intent = Str_sql)

\* a reply that begins with sql and is not sql was classified
C12_Witness ==
  /\ last.op = "classify_intent"
  /\ last.called
  /\ last.reply = <<"s","q","l",".">>
  /\ last.intent = Str_chat
  /\ last.next = "basic_chat"

\* an approve whose statement the SQL tool failed to run
ApproveWithFailedQuery ==
  /\ last.op = "approve"
  /\ last.response.status = 200
  /\ \E i \in DOMAIN last.trace : last.trace[i].ev = "execute_query" /\ ~last.trace[i].ok

\* C13: when the SQL tool fails during approve the pipeline goes on: the result
\* is the failure text behind the error marker, answer synthesis is called with
\* that result, and when it answers the interaction is recorded with that result
\* and the response has success true; the statement is run once, never again.
C13_ExecutionFailurePassedOn ==
  ApproveWithFailedQuery =>
    LET runs == EventsOf(last.trace, "execute_query")
        calls == EventsOf(last.trace, "llm")
        recorded == EventsOf(last.trace, "add_interaction")
    IN  /\ Len(runs) = 1
        /\ NodesOf(last.trace) = <<"generate_answer">>
        /\ Len(calls) = 1
        /\ calls[1].kind = "generate_answer"
        /\ startswith(calls[1].result, ErrorMarker)
        /\ Len(calls[1].result) > Len(ErrorMarker)
        /\ calls[1].ok =>
             /\ last.response.success
             /\ last.response.error = PyNone \/ last.response.error = <<>>
             /\ last.response.result = calls[1].result
             /\ last.response.answer = strip(calls[1].content)
             /\ recorded # <<>>
             /\ \A i \in DOMAIN recorded :
                  /\ recorded[i].result = calls[1].result
                  /\ recorded[i].query = runs[1].query
                  /\ LET history == user_memories[recorded[i].username].conversation_history
                     IN  /\ history # <<>>
                         /\ history[Len(history)].result = calls[1].result
                         /\ history[Len(history)].answer = last.response.answer

\* an approve whose statement failed and whose answer was written all the same
C13_Witness ==
  /\ ApproveWithFailedQuery
  /\ last.response.success
  /\ last.response.answer # <<>>
  /\ startswith(last.response.result, ErrorMarker)

\* bytes.fromhex or pickle.loads raises on the token
MalformedToken(state_hex) ==
  Bind(bytes_fromhex(state_hex), LAMBDA raw : ~raw.ok \/ ~pickle_loads(raw.bytes).ok)

\* C14: an approve or a regenerate given a token that is not valid hex, or that
\* does not decode to a state, answers with a failure and resumes nothing: no
\* node runs, no statement is written or run, no LLM call is made, no token is
\* issued, and no memory record, cached or stored, changes.
C14_MalformedTokenRejected ==
  [][(last'.op \in {"approve", "regenerate"} /\ MalformedToken(last'.request.state_hex)) =>
       /\ last'.response = HTTP500
       /\ last'.trace = <<>>
       /\ last'.pickled = NoState
       /\ user_memories' = user_memories
       /\ rows' = rows]_vars

\* an approve given hex digits that decode to no state, while a checkpoint is
\* held and the user's record is cached
C14_Witness ==
  /\ last.op = "approve"
  /\ bytes_fromhex(last.request.state_hex).ok
  /\ MalformedToken(last.request.state_hex)
  /\ last.response.status = 500
  /\ issued # {}
  /\ \E u \in Usernames : user_memories[u].present

\* the question of a start holds nothing but whitespace
BlankQuestion(question) == \A i \in 1..Len(question) : IsSpace(question[i])

\* C15: a start whose question is empty or all whitespace is turned away before
\* any workflow step: no node runs, no memory record is created or read, no LLM
\* call is made, no checkpoint is issued and no interaction is recorded.
C15_BlankQuestionRejected ==
  [][(last'.op = "start" /\ BlankQuestion(last'.request.question)) =>
       /\ last'.response = HTTP500
       /\ last'.trace = <<>>
       /\ last'.pickled = NoState
       /\ user_memories' = user_memories
       /\ rows' = rows
       /\ clock' = clock]_vars

\* a start with a question of blanks only, sent by a user with a stored history
\* whose record is not cached
C15_Witness ==
  /\ last.op = "start"
  /\ last.request.question # <<>>
  /\ BlankQuestion(last.request.question)
  /\ ~user_memories[last.request.username].present
  /\ rows[last.request.username].present

\* an LLM call of the request being answered raised
LlmFailed ==
  /\ last.op \in {"start", "approve", "regenerate"}
  /\ \E i \in DOMAIN last.trace : last.trace[i].ev = "llm" /\ ~last.trace[i].ok

\* C16: when an LLM call raises, in classification, chat answering or query
\* synthesis of a start, in query synthesis of a regenerate, or in answer
\* synthesis of an approve, the response carries success false and a non-empty
\* error, no checkpoint token is issued, the failed call is the last LLM call of
\* the request (it is not tried again) and no interaction is recorded: the log
\* and the indexes of every user stay as they were.
C16_LlmFailureIsTerminal ==
  [][LlmFailed' =>
       LET calls == EventsOf(last'.trace, "llm")
       IN  /\ last'.response.status = 200
           /\ last'.response.success = FALSE
           /\ last'.response.error # PyNone
           /\ last'.response.error # <<>>
           /\ last'.response.state_hex = PyNone
           /\ last'.pickled = NoState
           /\ ~calls[Len(calls)].ok
           /\ \A i \in 1..(Len(calls) - 1) : calls[i].ok /\ calls[i].kind # calls[Len(calls)].kind
           /\ EventsOf(last'.trace, "add_interaction") = <<>>
           /\ rows' = rows
           /\ \A username \in Usernames : IndexesOf(username)' = IndexesOf(username)]_vars

\* an approve whose statement ran and whose answer synthesis raised
C16_Witness ==
  /\ LlmFailed
  /\ last.op = "approve"
  /\ EventsOf(last.trace, "execute_query") # <<>>
  /\ EventsOf(last.trace, "llm")[1].kind = "generate_answer"
  /\ ~last.response.success

(***************************************************************************)
(* MemoryManager.get_user_memory called by several callers at once, each   *)
(* followed by add_interaction on the object it was handed                 *)
(* (user_memory = memory_manager.get_user_memory(username);                *)
(* user_memory.add_interaction(...)).  The method holds no lock, so its    *)
(* statements are steps of their own: the membership test, the constructor *)
(* (with its load from the table), the insertion into the dict, and the    *)
(* lookup of the return statement.  Objects have an identity: last.heap    *)
(* holds every ConversationMemory constructed, user_memories[username] and *)
(* the callers hold indexes into it.                                       *)
(***************************************************************************)
\* bound on the number of callers at once
MaxCallers == 3

Callers == 1..MaxCallers

NoRef == 0

InitConcurrent ==
  /\ user_memories = [u \in Usernames |-> NoMemory]
  /\ rows = SeedRows
  /\ connection \in BOOLEAN
  /\ clock = SeedClock
  /\ issued = {}
  /\ paused = {}
  /\ last = [op |-> "get_user_memory", heap |-> <<>>,
             callers |-> [t \in Callers |->
                            [pc |-> "test", username |-> User1, new |-> NoRef, ret |-> NoRef,
                             recorded |-> NoRef]]]

\* the world a method of the object `ref` runs in: the object stands under its username
ObjectWorld(username, object) ==
  [user_memories |-> [u \in Usernames |-> IF u = username THEN object ELSE NoMemory],
   rows |-> rows, connection |-> connection, dbFails |-> FALSE, clock |-> clock,
   llm |-> <<>>, sql |-> NoSql, trace |-> <<>>]

\* if username not in self.user_memories
GetTest(t) ==
  /\ last.callers[t].pc = "test"
  /\ last' = [last EXCEPT !.callers[t].pc =
                IF user_memories[last.callers[t].username].present THEN "return"
                ELSE "construct"]
  /\ UNCHANGED <<user_memories, rows, connection, clock, issued, paused>>

\* ConversationMemory(username): a new object, loaded from the table
GetConstruct(t) ==
  /\ last.callers[t].pc = "construct"
  /\ \E username \in {last.callers[t].username} :
       \E W \in {ConversationMemory(ObjectWorld(username, NoMemory), username)} :
         last' = [last EXCEPT !.heap = Append(@, W.user_memories[username]),
                              !.callers[t].new = Len(last.heap) + 1,
                              !.callers[t].pc = "insert"]
  /\ UNCHANGED <<user_memories, rows, connection, clock, issued, paused>>

\* self.user_memories[username] = <the new object>
GetInsert(t) ==
  /\ last.callers[t].pc = "insert"
  /\ user_memories' = [user_memories EXCEPT ![last.callers[t].username] =
                         [present |-> TRUE, ref |-> last.callers[t].new]]
  /\ last' = [last EXCEPT !.callers[t].pc = "return"]
  /\ UNCHANGED <<rows, connection, clock, issued, paused>>

\* return self.user_memories[username]
GetReturn(t) ==
  /\ last.callers[t].pc = "return"
  /\ last' = [last EXCEPT !.callers[t].ret = user_memories[last.callers[t].username].ref,
                          !.callers[t].pc = "add_interaction"]
  /\ UNCHANGED <<user_memories, rows, connection, clock, issued, paused>>

\* user_memory.add_interaction(...) on the object returned
GetRecord(t) ==
  /\ last.callers[t].pc = "add_interaction"
  /\ \E username \in {last.callers[t].username}, ref \in {last.callers[t].ret} :
       \E W \in {add_interaction(ObjectWorld(username, last.heap[ref]), username,
                                 Q_her, <<>>, <<>>, <<"h","i">>)} :
         /\ last' = [last EXCEPT !.heap[ref] = W.user_memories[username],
                                 !.callers[t].recorded = clock,
                                 !.callers[t].pc = "done"]
         /\ rows' = W.rows
         /\ clock' = W.clock
  /\ UNCHANGED <<user_memories, connection, issued, paused>>

NextConcurrent ==
  \E t \in Callers : GetTest(t) \/ GetConstruct(t) \/ GetInsert(t) \/ GetReturn(t) \/ GetRecord(t)

SpecConcurrent == InitConcurrent /\ [][NextConcurrent]_vars

\* C17: whatever the interleaving of concurrent first accesses for one username,
\* one Memory Record is created for it, every caller is handed that record, and
\* every interaction a caller recorded is in the log of the cached record.
C17_FirstAccessGuarded ==
  last.op = "get_user_memory" =>
    /\ Len(last.heap) <= 1
    /\ \A t \in Callers :
         last.callers[t].ret # NoRef =>
           /\ user_memories[last.callers[t].username].present
           /\ last.callers[t].ret = user_memories[last.callers[t].username].ref
    /\ \A t \in Callers :
         last.callers[t].pc = "done" =>
           \E i \in DOMAIN last.heap[user_memories[last.callers[t].username].ref].conversation_history :
             last.heap[user_memories[last.callers[t].username].ref].conversation_history[i].timestamp
               = last.callers[t].recorded

(***************************************************************************)
(* The Memory Store on its own: any sequence of get (get_user_memory),     *)
(* recordInteraction (get_user_memory, then add_interaction on the record) *)
(* and clear (clear_user_memory) in one process, each with the statements  *)
(* it sends to the table succeeding or raising.  `last` keeps the          *)
(* operation just done and, per username, how many times the process       *)
(* loaded the record from the table.                                       *)
(***************************************************************************)
\* bound on the number of recordInteraction operations
MaxRecords == 2

\* bound on the number of clear operations
MaxClears == 2

InitStore ==
  /\ user_memories = [u \in Usernames |-> NoMemory]
  /\ rows \in {SeedRows, [u \in Usernames |-> NoRow]}
  /\ connection \in BOOLEAN
  /\ clock = SeedClock
  /\ issued = {}
  /\ paused = {}
  /\ last = [op |-> "process start", username |-> User1, failed |-> FALSE, found |-> NoMemory,
             loads |-> [u \in Usernames |-> 0], records |-> 0, clears |-> 0]

\* the number of load_from_database calls for username among the calls made
LoadsIn(trace, username) ==
  Len(SelectSeq(trace, LAMBDA e : e.ev = "load_from_database" /\ e.username = username))

\* the process state after a Memory Store operation that ended in world W
StoreDone(op, username, dbFails, W, records, clears) ==
  /\ user_memories' = W.user_memories
  /\ rows' = W.rows
  /\ clock' = W.clock
  /\ last' = [op |-> op, username |-> username, failed |-> dbFails,
              found |-> IF op = "get" THEN W.user_memories[username] ELSE NoMemory,
              loads |-> [u \in Usernames |-> last.loads[u] + LoadsIn(W.trace, u)],
              records |-> records, clears |-> clears]
  /\ UNCHANGED <<connection, issued, paused>>

\* memory_manager.get_user_memory(username)
StoreGet ==
  \E username \in Usernames, dbFails \in BOOLEAN :
    StoreDone("get", username, dbFails,
              get_user_memory(World(<<>>, NoSql, dbFails), username),
              last.records, last.clears)

\* memory_manager.get_user_memory(username).add_interaction(...)
StoreRecord ==
  \E username \in Usernames, dbFails \in BOOLEAN, r \in Recordings :
    /\ last.records < MaxRecords
    /\ StoreDone("recordInteraction", username, dbFails,
                 add_interaction(get_user_memory(World(<<>>, NoSql, dbFails), username),
                                 username, r.question, r.query, r.result, r.answer),
                 last.records + 1, last.clears)

\* memory_manager.clear_user_memory(username)
StoreClear ==
  \E username \in Usernames, dbFails \in BOOLEAN :
    /\ last.clears < MaxClears
    /\ StoreDone("clear", username, dbFails,
                 clear_user_memory(World(<<>>, NoSql, dbFails), username),
                 last.records, last.clears + 1)

NextStore == StoreGet \/ StoreRecord \/ StoreClear

SpecStore == InitStore /\ [][NextStore]_vars

\* C18: the record of a username is created and loaded from the table on the
\* first access, not before, and over any sequence of get, recordInteraction and
\* clear the process loads it from the table exactly once.
C18_LoadedExactlyOnce ==
  \A username \in Usernames :
    /\ last.loads[username] <= 1
    /\ user_memories[username].present => last.loads[username] = 1
    /\ last.op = "process start" => last.loads[username] = 0

\* C19: clear empties the log, the pattern index and the entity index, stores
\* the empty state, and evicts the record from the cache; the next get of that
\* username returns a record whose log, patterns and entities are empty, whether
\* the user was cached or not and whether the clear reached the table or not.
C19_ClearedRecordIsEmpty ==
  [][/\ last'.op = "clear" => ~user_memories'[last'.username].present
     /\ (last.op = "clear" /\ last'.op = "get" /\ last'.username = last.username) =>
          /\ last'.found.present
          /\ last'.found.conversation_history = <<>>
          /\ last'.found.question_patterns = <<>>
          /\ last'.found.entity_memory = <<>>]_vars

(***************************************************************************)
(* The process while the durable store is unavailable: either there is no  *)
(* connection, or every statement sent to the table raises.  The requests  *)
(* are those of Spec.                                                      *)
(***************************************************************************)
\* bound on datetime.now() readings while the store is unavailable
MaxClockDown == 7

StartDown ==
  \E username \in Usernames, question \in Questions, intent \in ClassifyOutcomes,
     text \in TextOutcomes :
    CommitUntil(MaxClockDown, "start", [username |-> username, question |-> question],
                process_query(World(<<intent, text>>, NoSql, TRUE), username, question))

ApproveDown ==
  \E state_hex \in issued \cup BadTokens, feedback \in ApprovalFeedbacks, sql \in SqlOutcomes,
     text \in TextOutcomes :
    CommitUntil(MaxClockDown, "approve", [state_hex |-> state_hex, feedback |-> feedback],
                approve_and_execute_query(World(<<text>>, sql, TRUE), state_hex, feedback))

RegenerateDown ==
  \E state_hex \in issued \cup BadTokens, feedback \in Feedbacks, text \in TextOutcomes :
    CommitUntil(MaxClockDown, "regenerate", [state_hex |-> state_hex, feedback |-> feedback],
                regenerate_endpoint(World(<<text>>, NoSql, TRUE), state_hex, feedback))

MemoryCommandDown ==
  \E username \in Usernames, command \in Commands :
    CommitUntil(MaxClockDown, "command", [username |-> username, command |-> command],
                handle_memory_command(World(<<>>, NoSql, TRUE), username, command))

NextDown == StartDown \/ ApproveDown \/ RegenerateDown \/ MemoryCommandDown \/ Deliver

SpecDown == Init /\ [][NextDown]_vars

\* every LLM call of the answered request returned
LlmAnswered(answered) ==
  \A i \in DOMAIN answered.trace : answered.trace[i].ev = "llm" => answered.trace[i].ok

\* the answered request is a start with a question, or an approve of a token
\* that decodes
WorkflowRequest(answered) ==
  \/ answered.op = "start" /\ ~BlankQuestion(answered.request.question)
  \/ answered.op = "approve" /\ ~MalformedToken(answered.request.state_hex)

\* C20: while the durable store is unavailable the Memory Store works in memory
\* only and nothing is fatal: the table is left as it is; the first get of a
\* user gives an empty record, whatever the table holds; an interaction recorded
\* goes into the cached record, and a later get finds the cached record with
\* it, without loading; a start and an approve whose LLM calls answer complete
\* with success.
C20_StoreUnavailableInMemoryOnly ==
  [][last' # Idle =>
     \A answered \in {last'} :
       LET recorded == EventsOf(last'.trace, "add_interaction")
           gets == EventsOf(last'.trace, "get_user_memory")
           loads == EventsOf(last'.trace, "load_from_database")
           calls == EventsOf(last'.trace, "llm")
       IN  /\ rows' = rows
           /\ (WorkflowRequest(answered) /\ LlmAnswered(answered)) =>
                /\ last'.response.status = 200
                /\ last'.response.success
           /\ last'.op = "command" => last'.response.status = 200
           /\ \A username \in Usernames :
                LET before == user_memories[username]
                    after == user_memories'[username]
                    mine == SelectSeq(recorded, LAMBDA e : e.username = username)
                IN  /\ (~before.present /\ after.present) =>
                          /\ Len(SelectSeq(loads, LAMBDA e : e.username = username)) = 1
                          /\ Len(after.conversation_history) = Len(mine)
                          /\ (last'.op = "start" /\ calls # <<>>) =>
                               /\ calls[1].memory_context = <<>>
                               /\ calls[1].resolved_question = calls[1].question
                    /\ (before.present /\ after.present) =>
                          /\ SelectSeq(loads, LAMBDA e : e.username = username) = <<>>
                          /\ Len(after.conversation_history)
                               = Len(before.conversation_history) + Len(mine)
                          /\ SubSeq(after.conversation_history, 1,
                                    Len(before.conversation_history))
                               = before.conversation_history
                    /\ mine # <<>> =>
                          /\ after.present
                          /\ \A i \in 1..Len(mine) :
                               LET entry == after.conversation_history[
                                              Len(after.conversation_history) - Len(mine) + i]
                               IN  /\ entry.question = mine[i].question
                                   /\ entry.query = mine[i].query
                                   /\ entry.result = mine[i].result
                                   /\ entry.answer = mine[i].answer]_vars

\* a start answered from a cached record that holds an interaction recorded
\* earlier in the process, the table being out of reach
C20_Witness ==
  /\ last.op = "start"
  /\ LlmAnswered(last)
  /\ last.response.status = 200
  /\ last.response.success
  /\ EventsOf(last.trace, "load_from_database") = <<>>
  /\ EventsOf(last.trace, "llm")[1].memory_context # <<>>
  /\ rows = SeedRows

(***************************************************************************)
(* The Entity Index of one Memory Record under recorded interactions with  *)
(* the result texts the SQL tool, a failed execution or a chat turn can    *)
(* hand over.  The record is the one a new process loads from the table    *)
(* (a row left by an earlier lifetime, or none).  `last` keeps what was    *)
(* recorded, in arrival order.                                             *)
(***************************************************************************)
\* bound on the number of add_interaction calls
MaxEntityRecords == 2

Res_error == <<"e","r","r","o","r",":"," ","n","o"," ","s","u","c","h"," ","t","a","b","l","e">>

Res_failed == ErrorMarker \o <<"n","o"," ","s","u","c","h"," ","t","a","b","l","e">>

\* a row whose first column is the empty string
Res_empty_name == <<"[","(","'","'",","," ","9",")","]">>

Res_bo_al == <<"[","(","'","B","o","'",",",")",","," ","(","'","A","L","'",","," ","7",")","]">>

Res_no_rows == <<"[","]">>

\* a list without a non-empty tuple
Res_no_tuple == <<"[","9",","," ","(",")","]">>

\* bracketed on both ends, not a literal
Res_unclosed == <<"[","(","'","A","l","'",","," ","9","]">>

ResultTexts ==
  {<<>>, Res_error, Res_failed, Rows_al, Res_empty_name, Res_bo_al, Res_no_rows, Res_no_tuple,
   Res_unclosed}

EntityRecordings ==
  {[question |-> Q_seed, query |-> R_select, result |-> result, answer |-> <<"A","l">>] :
     result \in ResultTexts}
  \cup {[question |-> Q_her, query |-> <<>>, result |-> result, answer |-> <<"h","i">>] :
          result \in ResultTexts}

InitEntities ==
  /\ rows \in {SeedRows, [u \in Usernames |-> NoRow]}
  /\ connection = TRUE
  /\ clock = SeedClock
  /\ user_memories =
       ConversationMemory([user_memories |-> [u \in Usernames |-> NoMemory], rows |-> rows,
                           connection |-> TRUE, dbFails |-> FALSE, clock |-> SeedClock,
                           llm |-> <<>>, sql |-> NoSql, trace |-> <<>>], User1).user_memories
  /\ issued = {}
  /\ paused = {}
  /\ last = [op |-> "recordEntities", recorded |-> <<>>]

\* user_memory.add_interaction(question, query, result, answer)
RecordEntities ==
  \E r \in EntityRecordings :
    /\ Len(last.recorded) < MaxEntityRecords
    /\ \E W \in {add_interaction(World(<<>>, NoSql, FALSE), User1, r.question, r.query,
                                 r.result, r.answer)} :
         /\ user_memories' = W.user_memories
         /\ rows' = W.rows
         /\ clock' = W.clock
    /\ last' = [last EXCEPT !.recorded = Append(@, r @@ [timestamp |-> clock])]
    /\ UNCHANGED <<connection, issued, paused>>

NextEntities == RecordEntities

SpecEntities == InitEntities /\ [][NextEntities]_vars

\* C21: in every reachable Memory Record every key of the Entity Index is a
\* non-empty string that equals its own lower-cased form.
C21_EntityKeysNonEmptyLower ==
  \A i \in 1..Len(user_memories[User1].entity_memory) :
    LET key == user_memories[User1].entity_memory[i].key
    IN  key # <<>> /\ key = lower(key)

\* the interaction the latest add_interaction call recorded
LastRecorded(request) == request.recorded[Len(request.recorded)]

\* C22: recording an interaction whose result text is not a literal list (an
\* error message, the empty result of a chat turn, a text that fails to parse)
\* leaves the Entity Index as it was, the call completes, and the interaction
\* is appended to the log.
C22_NonListResultLeavesIndex ==
  [][\A r \in {LastRecorded(last')} :
       ~literal_eval(r.result).ok =>
         /\ user_memories'[User1].present
         /\ user_memories'[User1].entity_memory = user_memories[User1].entity_memory
         /\ user_memories'[User1].conversation_history =
              Append(user_memories[User1].conversation_history,
                     [timestamp |-> r.timestamp, question |-> r.question, query |-> r.query,
                      result |-> r.result, answer |-> r.answer])]_vars

\* an error message was recorded in a record that knows an entity
C22_Witness ==
  /\ last.op = "recordEntities"
  /\ last.recorded # <<>>
  /\ LastRecorded(last).result = Res_error
  /\ user_memories[User1].entity_memory # <<>>
  /\ user_memories[User1].conversation_history[Len(user_memories[User1].conversation_history)].result
       = Res_error

\* C23: after recording an interaction whose result is a literal list, the
\* lower-cased string form of the first element of each non-empty tuple is a
\* key of the Entity Index mapped to that interaction's question, result and
\* answer (a key already present is overwritten), and the entries of all other
\* keys are as they were.
C23_EntitiesFromTuples ==
  [][\A r \in {LastRecorded(last')} :
       \A parsed \in {literal_eval(r.result)} :
         parsed.ok =>
           LET items == parsed.val.elems
               keys == {lower(StrOfFirst(items[i])) :
                          i \in {j \in 1..Len(items) :
                                   items[j].kind = "tuple" /\ Len(items[j].elems) > 0}}
               before == user_memories[User1].entity_memory
               after == user_memories'[User1].entity_memory
           IN  /\ \A k \in keys :
                    /\ DictHas(after, k)
                    /\ DictGet(after, k, NoRow).question = r.question
                    /\ DictGet(after, k, NoRow).full_result = r.result
                    /\ DictGet(after, k, NoRow).answer = r.answer
               /\ \A i \in 1..Len(before) :
                    before[i].key \notin keys =>
                      DictHas(after, before[i].key)
                      /\ DictGet(after, before[i].key, NoRow) = before[i].val
               /\ \A i \in 1..Len(after) :
                    after[i].key \in keys \/ DictHas(before, after[i].key)]_vars

\* the entity al, known from an earlier interaction, was overwritten by a newer
\* one while the entity bo kept its entry
C23_Witness ==
  /\ last.op = "recordEntities"
  /\ Len(last.recorded) >= 2
  /\ last.recorded[Len(last.recorded) - 1].result = Res_bo_al
  /\ last.recorded[Len(last.recorded) - 1].question = Q_seed
  /\ LastRecorded(last).result = Rows_al
  /\ LastRecorded(last).question = Q_her
  /\ DictGet(user_memories[User1].entity_memory, <<"a","l">>, NoRow).question = Q_her
  /\ DictGet(user_memories[User1].entity_memory, <<"a","l">>, NoRow).full_result = Rows_al
  /\ DictGet(user_memories[User1].entity_memory, <<"b","o">>, NoRow).question = Q_seed

(***************************************************************************)
(* Reference resolution on its own: a Memory Record built by recorded      *)
(* interactions, then one resolve_contextual_references call with a        *)
(* question.  `last` keeps what was recorded, then the question asked and  *)
(* the resolved question returned.                                         *)
(***************************************************************************)
\* bound on the number of add_interaction calls before the question is asked
MaxResolveRecords == 3

Q_top_student == <<"w","h","o"," ","i","s"," ","t","h","e"," ","t","o","p"," ","s","t","u","d","e","n","t">>

Rows_alice == <<"[","(","'","a","l","i","c","e","'",","," ","9","5",")","]">>

Rows_bob_cy == <<"[","(","'","B","o","b","'",","," ","7",")",","," ","(","'","c","y","'",","," ","1",")","]">>

ResolveRecordings ==
  {[question |-> Q_top_student, query |-> R_select, result |-> Rows_alice, answer |-> <<"a","l","i","c","e">>],
   [question |-> Q_seed, query |-> R_select, result |-> Rows_bob_cy, answer |-> <<"B","o","b">>],
   [question |-> Q_seed, query |-> R_select, result |-> Res_empty_name, answer |-> <<>>],
   [question |-> Q_her, query |-> <<>>, result |-> <<>>, answer |-> <<"h","i">>],
   [question |-> Q_seed, query |-> R_select, result |-> Res_failed, answer |-> <<>>]}

Q_her_email == <<"w","h","a","t"," ","i","s"," ","h","e","r"," ","e","m","a","i","l">>

Q_the_her == <<"t","h","e"," ","i","d"," ","o","f"," ","h","e","r">>

Q_the_marks == <<"w","h","a","t"," ","a","r","e"," ","t","h","e"," ","m","a","r","k","s">>

Q_grade_bob == <<"W","h","a","t"," ","g","r","a","d","e"," ","h","a","s"," ","b","o","b">>

Q_list == <<"l","i","s","t"," ","i","d","s">>

Q_list_the == <<"l","i","s","t"," ","t","h","e"," ","i","d","s">>

ResolveQuestions == {Q_her_email, Q_the_her, Q_her, Q_the_marks, Q_grade_bob, Q_list, Q_list_the}

InitResolve ==
  /\ user_memories =
       ConversationMemory([user_memories |-> [u \in Usernames |-> NoMemory],
                           rows |-> [u \in Usernames |-> NoRow], connection |-> TRUE,
                           dbFails |-> FALSE, clock |-> 0, llm |-> <<>>, sql |-> NoSql,
                           trace |-> <<>>], User1).user_memories
  /\ rows = [u \in Usernames |-> NoRow]
  /\ connection = TRUE
  /\ clock = 0
  /\ issued = {}
  /\ paused = {}
  /\ last = [op |-> "record", recorded |-> <<>>]

\* user_memory.add_interaction(question, query, result, answer)
RecordForResolve ==
  \E r \in ResolveRecordings :
    /\ last.op = "record"
    /\ Len(last.recorded) < MaxResolveRecords
    /\ \E W \in {add_interaction(World(<<>>, NoSql, FALSE), User1, r.question, r.query,
                                 r.result, r.answer)} :
         /\ user_memories' = W.user_memories
         /\ rows' = W.rows
         /\ clock' = W.clock
    /\ last' = [last EXCEPT !.recorded = Append(@, r @@ [timestamp |-> clock])]
    /\ UNCHANGED <<connection, issued, paused>>

\* user_memory.resolve_contextual_references(question)
Resolve ==
  \E question \in ResolveQuestions :
    /\ last.op = "record"
    /\ last' = [op |-> "resolveReferences", recorded |-> last.recorded, question |-> question,
                resolved |-> resolve_contextual_references(user_memories[User1], question)]
    /\ UNCHANGED <<user_memories, rows, connection, clock, issued, paused>>

NextResolve == RecordForResolve \/ Resolve

SpecResolve == InitResolve /\ [][NextResolve]_vars

\* the question contains "what" and ("marks" or "grade"), ignoring case
AsksForMarks(question) ==
  /\ Contains(lower(question), <<"w","h","a","t">>)
  /\ \/ Contains(lower(question), <<"m","a","r","k","s">>)
     \/ Contains(lower(question), <<"g","r","a","d","e">>)

\* the string form of the first element of the first tuple of the most recent
\* interaction's result ([ok |-> FALSE] when there is none)
MostRecentName(history) ==
  IF history = <<>> THEN [ok |-> FALSE]
  ELSE Bind(literal_eval(history[Len(history)].result), LAMBDA parsed :
         IF parsed.ok /\ FirstTupleIndex(parsed.val.elems) # 0
         THEN [ok |-> TRUE, name |-> StrOfFirst(parsed.val.elems[FirstTupleIndex(parsed.val.elems)])]
         ELSE [ok |-> FALSE])

\* the pronouns of the question: its whitespace-separated words that are one of
\* the seven, in any letter case
PronounsIn(question) == {w \in words(question) : InSeq(lower(w), pronouns)}

RECURSIVE SubstitutePronouns(_, _, _)
\* the question from index i on with every pronoun replaced by name and every
\* other character kept
SubstitutePronouns(question, i, name) ==
  IF i > Len(question) THEN <<>>
  ELSE IF IsSpace(question[i]) THEN <<question[i]>> \o SubstitutePronouns(question, i + 1, name)
  ELSE LET j == Least({k \in i..Len(question) : k = Len(question) \/ IsSpace(question[k + 1])})
       IN  (IF InSeq(lower(SubSeq(question, i, j)), pronouns) THEN name
            ELSE SubSeq(question, i, j))
           \o SubstitutePronouns(question, j + 1, name)

\* the example of C24 on its own
C24_Example ==
  (/\ last.op = "resolveReferences"
   /\ last.recorded # <<>>
   /\ LastRecorded(last).question = Q_top_student
   /\ LastRecorded(last).result = Rows_alice
   /\ last.question = Q_her_email)
  => last.resolved = <<"w","h","a","t"," ","i","s"," ","a","l","i","c","e"," ","e","m","a","i","l">>

MarksQuestion(entity) ==
  <<"w","h","a","t"," ","a","r","e"," ">> \o entity \o <<"'","s"," ","m","a","r","k","s">>

\* some key of the Entity Index occurs in the lower-cased question
NamesKnownEntity(entity_memory, question) ==
  \E i \in 1..Len(entity_memory) : Contains(lower(question), entity_memory[i].key)

\* the keys of the Entity Index whose timestamp no other key exceeds
NewestEntities(entity_memory) ==
  {entity_memory[i].key : i \in {j \in 1..Len(entity_memory) :
     \A k \in 1..Len(entity_memory) :
       entity_memory[k].val.timestamp <= entity_memory[j].val.timestamp}}

\* C25: a question containing "what" and ("marks" or "grade"), asked while the
\* Entity Index is non-empty and names no known entity, resolves to exactly
\* "what are <entity>'s marks" for the entity with the greatest timestamp; when
\* the question names a known entity the rewrite is not applied and the
\* question comes back as the pronoun pass left it.
C25_MarksRewrite ==
  (last.op = "resolveReferences" /\ AsksForMarks(last.question)) =>
    LET m == user_memories[User1]
    IN  /\ (m.entity_memory # <<>> /\ ~NamesKnownEntity(m.entity_memory, last.question))
           => /\ Cardinality(NewestEntities(m.entity_memory)) = 1
              /\ \A entity \in NewestEntities(m.entity_memory) :
                   last.resolved = MarksQuestion(entity)
        /\ NamesKnownEntity(m.entity_memory, last.question)
           => /\ last.resolved = resolve_pronouns(m, lower(last.question), last.question, 1)
              /\ \A i \in 1..Len(m.entity_memory) :
                   last.resolved # MarksQuestion(m.entity_memory[i].key)

\* the question was rewritten for the entity recorded again most recently, which
\* is neither the only key nor the key inserted last
C25_Witness ==
  /\ last.op = "resolveReferences"
  /\ last.question = Q_the_marks
  /\ DictKeys(user_memories[User1].entity_memory) = <<<<"a","l","i","c","e">>, <<"b","o","b">>, <<"c","y">> >>
  /\ last.resolved = MarksQuestion(<<"a","l","i","c","e">>)

(***************************************************************************)
(* The context narrative on its own: a Memory Record built by recorded     *)
(* interactions, then one get_relevant_context call with a question.       *)
(* `last` keeps what was recorded, then the question asked, the narrative  *)
(* returned and the interactions it lists.                                 *)
(***************************************************************************)
\* bound on the number of add_interaction calls before the question is asked
MaxContextRecords == 4

Q_student_ids == <<"s","t","u","d","e","n","t"," ","i","d","s">>

Q_hello == <<"h","e","l","l","o">>

ContextRecordings ==
  {[question |-> Q_top_student, query |-> R_select, result |-> Rows_al, answer |-> <<"A","l">>],
   [question |-> Q_student_ids, query |-> R_select, result |-> Res_no_rows, answer |-> <<>>],
   [question |-> Q_hello, query |-> <<>>, result |-> <<>>, answer |-> <<"h","i">>]}

\* shares top and student with Q_top_student, student with Q_student_ids
Q_top_email == <<"T","o","p"," ","s","t","u","d","e","n","t"," ","e","m","a","i","l">>

\* shares ids with Q_student_ids
Q_list_ids == <<"l","i","s","t"," ","i","d","s">>

ContextQuestions == {Q_top_email, Q_list_ids}

\* user_memory.add_interaction(question, query, result, answer)
RecordForContext ==
  \E r \in ContextRecordings :
    /\ last.op = "record"
    /\ Len(last.recorded) < MaxContextRecords
    /\ \E W \in {add_interaction(World(<<>>, NoSql, FALSE), User1, r.question, r.query,
                                 r.result, r.answer)} :
         /\ user_memories' = W.user_memories
         /\ rows' = W.rows
         /\ clock' = W.clock
    /\ last' = [last EXCEPT !.recorded = Append(@, r @@ [timestamp |-> clock])]
    /\ UNCHANGED <<connection, issued, paused>>

\* user_memory.get_relevant_context(current_question)
Context ==
  \E current_question \in ContextQuestions :
    /\ last.op = "record"
    /\ last' = [op |-> "relevantContext", recorded |-> last.recorded,
                question |-> current_question,
                narrative |-> get_relevant_context(user_memories[User1], current_question),
                listed |-> context_interactions(user_memories[User1], current_question)]
    /\ UNCHANGED <<user_memories, rows, connection, clock, issued, paused>>

NextContext == RecordForContext \/ Context

SpecContext == InitResolve /\ [][NextContext]_vars

\* the interaction is one of those the narrative lists
Listed(interaction) == \E i \in 1..Len(last.listed) : last.listed[i] = interaction

\* the number of whitespace-separated words the two questions share, ignoring case
SharedWords(question, current_question) ==
  Cardinality(words(lower(question)) \cap words(lower(current_question)))

\* C26: for a non-empty history the narrative includes the last 2 interactions
\* of the log (the last one when the log has one entry), however many other
\* interactions match the relevance filter.
C26_LastTwoAlwaysListed ==
  last.op = "relevantContext" =>
    LET history == user_memories[User1].conversation_history
    IN  \A i \in 1..Len(history) :
          i > Len(history) - 2 =>
            /\ Listed(history[i])
            /\ Contains(last.narrative, <<". Previous Question: ">> \o history[i].question)

\* the interactions that qualify for the narrative: the last 2 of the log, then
\* the earlier ones that share at least 2 words with the question, in log order
Qualifying(history, current_question) ==
  LastN(history, 2)
  \o SelectSeq(SubSeq(history, 1, Len(history) - 2),
               LAMBDA interaction : SharedWords(interaction.question, current_question) >= 2)

\* C27 as stated: an interaction whose question shares at least 2 words
\* (ignoring case) with the current question is included in the context, and
\* one that shares exactly 1 word and is not among the last 2 is excluded.
C27_RelevanceFilter ==
  last.op = "relevantContext" =>
    LET history == user_memories[User1].conversation_history
    IN  \A i \in 1..Len(history) :
          /\ SharedWords(history[i].question, last.question) >= 2 => Listed(history[i])
          /\ (SharedWords(history[i].question, last.question) = 1 /\ i <= Len(history) - 2)
             => ~Listed(history[i])

\* C27 amended: an interaction sharing at least 2 words is included when at most
\* 3 interactions qualify; when more qualify the narrative lists 3 of them;
\* an interaction sharing at most 1 word and not among the last 2 is excluded.
C27_RelevanceFilterUpToThree ==
  last.op = "relevantContext" =>
    LET history == user_memories[User1].conversation_history
        qualifying == Qualifying(history, last.question)
    IN  /\ \A i \in 1..Len(history) :
             /\ (SharedWords(history[i].question, last.question) >= 2 /\ Len(qualifying) <= 3)
                => Listed(history[i])
             /\ (SharedWords(history[i].question, last.question) <= 1 /\ i <= Len(history) - 2)
                => ~Listed(history[i])
        /\ Len(last.listed) = IF Len(qualifying) <= 3 THEN Len(qualifying) ELSE 3
        /\ \A k \in 1..Len(last.listed) :
             \E j \in 1..Len(qualifying) : qualifying[j] = last.listed[k]

\* of two earlier interactions the one sharing two words is listed and the one
\* sharing one word is not
C27_Witness ==
  /\ last.op = "relevantContext"
  /\ last.question = Q_top_email
  /\ Len(last.recorded) = 4
  /\ last.recorded[1].question = Q_top_student
  /\ last.recorded[2].question = Q_student_ids
  /\ last.recorded[3].question = Q_hello
  /\ last.recorded[4].question = Q_hello
  /\ Listed(user_memories[User1].conversation_history[1])
  /\ ~Listed(user_memories[User1].conversation_history[2])

\* the number of interactions the narrative text lists
ListedInNarrative(narrative) ==
  Cardinality({i \in 1..Len(narrative) : narrative[i] = ". Previous Question: "})

\* C28: the narrative lists at most 3 interactions, none of them twice (by
\* question and timestamp); they are the last 3 of the deduplicated list, in
\* the order of that list; an empty history gives the empty string.
C28_ContextShape ==
  last.op = "relevantContext" =>
    LET history == user_memories[User1].conversation_history
    IN  /\ Len(last.listed) <= 3
        /\ ListedInNarrative(last.narrative) = Len(last.listed)
        /\ \A k \in 1..Len(last.listed) :
             Contains(last.narrative,
                      <<Digits[k + 1], ". Previous Question: ">> \o last.listed[k].question
                      \o <<"\n">>)
        /\ \A j, k \in 1..Len(last.listed) :
             interaction_id(last.listed[j]) = interaction_id(last.listed[k]) => j = k
        /\ last.listed = LastN(Qualifying(history, last.question), 3)
        /\ history = <<>> => last.narrative = <<>>
        /\ history # <<>> => last.narrative # <<>>

\* four interactions qualify, two of them both recent and relevant, and three
\* are listed
C28_Witness ==
  /\ last.op = "relevantContext"
  /\ last.question = Q_top_email
  /\ Len(last.recorded) = 4
  /\ \A i \in 1..4 : last.recorded[i].question = Q_top_student
  /\ Len(last.listed) = 3
  /\ ListedInNarrative(last.narrative) = 3

(***************************************************************************)
(* Query synthesis on its own: one write_query step for each reply the LLM *)
(* may give.  A reply is a statement (its text up to the clause at its     *)
(* end, then that clause), bare, padded with whitespace or in a sql fence. *)
(***************************************************************************)
MutatingHeads ==
  {<<"U","P","D","A","T","E"," ","t"," ","S","E","T"," ","x","=","1">>,
   <<"u","p","d","a","t","e"," ","t","\n","S","E","T"," ","x","=","1">>,
   <<"I","n","s","e","r","t"," ","I","N","T","O"," ","t"," ","V","A","L","U","E","S"," ","(","1",")">>,
   <<"D","E","L","E","T","E"," ","F","R","O","M"," ","t">>}

SelectHeads == {R_select, <<"s","e","l","e","c","t"," ","n","\n","F","R","O","M"," ","s">>}

\* what may follow the head: nothing, a LIMIT clause, or a clause that is not LIMIT <n>
LimitTails == {<<" ","L","I","M","I","T"," ","5">>, <<"\n","l","i","m","i","t"," ","1","0">>, <<" "," ","L","i","m","i","t"," ","7"," ">>}

OtherTails == {<<>>, <<" ","L","I","M","I","T"," ","x">>}

\* the reply text around the statement
Wrapped(wrapper, statement) ==
  CASE wrapper = "bare" -> statement
    [] wrapper = "padded" -> <<" ", "\n">> \o statement \o <<" ", "\n">>
    [] wrapper = "fenced" -> FenceOpen \o <<"\n">> \o statement \o <<"\n">> \o Fence

InitSynthesis ==
  /\ user_memories = [u \in Usernames |-> NoMemory]
  /\ rows = SeedRows
  /\ connection = TRUE
  /\ clock = SeedClock
  /\ issued = {}
  /\ paused = {}
  /\ last \in {[op |-> "write_query", head |-> head, tail |-> tail, wrapper |-> wrapper,
                called |-> FALSE] :
                 head \in MutatingHeads \cup SelectHeads, tail \in LimitTails \cup OtherTails,
                 wrapper \in {"bare", "padded", "fenced"}}

\* the write_query step of the graph on the reply
Synthesize ==
  /\ ~last.called
  /\ \E state \in
          {[username |-> User1, question |-> Q_seed, query |-> <<>>, result |-> <<>>,
            answer |-> <<>>, error |-> <<>>, success |-> TRUE, context_from_memory |-> <<>>,
            resolved_question |-> Q_seed, feedback |-> <<>>, intent |-> Str_sql]} :
       \E step \in {write_query(World(<<Reply(Wrapped(last.wrapper, last.head \o last.tail))>>,
                                      NoSql, FALSE), state)} :
         last' = [op |-> "write_query", head |-> last.head, tail |-> last.tail,
                  wrapper |-> last.wrapper, called |-> TRUE, query |-> step.state["query"]]
  /\ UNCHANGED <<user_memories, rows, connection, clock, issued, paused>>

NextSynthesis == Synthesize

SpecSynthesis == InitSynthesis /\ [][NextSynthesis]_vars

\* the text with every newline replaced by a space
OnOneLine(text) == [i \in 1..Len(text) |-> IF text[i] = "\n" THEN " " ELSE text[i]]

\* C29: for a statement whose first keyword is UPDATE, INSERT or DELETE in any
\* letter case a trailing LIMIT <n> clause is removed ("UPDATE t SET x=1
\* LIMIT 5" becomes "UPDATE t SET x=1"); a statement starting with SELECT is
\* returned with its LIMIT clause, unchanged apart from trimming and the
\* replacement of newlines by spaces.
C29_LimitStrippedOnMutating ==
  last.called =>
    /\ (last.head \in MutatingHeads /\ last.tail \in LimitTails)
       => last.query = OnOneLine(last.head)
    /\ (last.head \in MutatingHeads /\ last.tail \in OtherTails)
       => last.query = OnOneLine(strip(last.head \o last.tail))
    /\ last.head \in SelectHeads
       => last.query = OnOneLine(strip(last.head \o last.tail))
    /\ (last.head = <<"U","P","D","A","T","E"," ","t"," ","S","E","T"," ","x","=","1">> /\ last.tail = <<" ","L","I","M","I","T"," ","5">>)
       => last.query = <<"U","P","D","A","T","E"," ","t"," ","S","E","T"," ","x","=","1">>

\* a lower-case update with a lower-case limit clause on its own line, in a
\* fence, lost the clause
C29_Witness ==
  /\ last.op = "write_query"
  /\ last.called
  /\ last.wrapper = "fenced"
  /\ last.head = <<"u","p","d","a","t","e"," ","t","\n","S","E","T"," ","x","=","1">>
  /\ last.tail = <<"\n","l","i","m","i","t"," ","1","0">>
  /\ last.query = <<"u","p","d","a","t","e"," ","t"," ","S","E","T"," ","x","=","1">>

(***************************************************************************)
(* Replay of a checkpoint: one start, then approve calls with the token    *)
(* the start returned.  Nothing in the process remembers a token: it is    *)
(* the pickled State itself, so the caller can send it again.  `last`      *)
(* keeps, per approve call, the token, the response, the calls made and    *)
(* the user's log before and after.                                        *)
(***************************************************************************)
\* bound on the number of approve calls
MaxApprovals == 3

InitReplay ==
  /\ user_memories = [u \in Usernames |-> NoMemory]
  /\ rows = SeedRows
  /\ connection = TRUE
  /\ clock = SeedClock
  /\ issued = {}
  /\ paused = {}
  /\ last = [op |-> "replay", started |-> FALSE, approvals |-> <<>>]

\* start: POST /query, the response delivered to the caller
StartReplay ==
  \E username \in Usernames, question \in Questions, intent \in ClassifyOutcomes,
     text \in TextOutcomes :
    /\ ~last.started
    /\ \E done \in {process_query(World(<<intent, text>>, NoSql, FALSE), username, question)} :
         /\ user_memories' = done.W.user_memories
         /\ rows' = done.W.rows
         /\ clock' = done.W.clock
         /\ issued' = IF done.pickled # NoState THEN issued \cup {done.response.state_hex}
                      ELSE issued
         /\ paused' = IF done.pickled # NoState
                      THEN paused \cup {[state_hex |-> done.response.state_hex,
                                         state |-> done.pickled]}
                      ELSE paused
    /\ last' = [last EXCEPT !.started = TRUE]
    /\ UNCHANGED connection

\* approve: POST /query/approve with a token the caller holds
ApproveAgain ==
  \E state_hex \in issued, feedback \in ApprovalFeedbacks, sql \in SqlOutcomes,
     text \in TextOutcomes :
    /\ Len(last.approvals) < MaxApprovals
    /\ \E done \in {approve_and_execute_query(World(<<text>>, sql, FALSE), state_hex, feedback)} :
         /\ user_memories' = done.W.user_memories
         /\ rows' = done.W.rows
         /\ clock' = done.W.clock
         /\ last' = [last EXCEPT !.approvals =
                       Append(@, [state_hex |-> state_hex, response |-> done.response,
                                  trace |-> done.W.trace,
                                  before |-> user_memories[User1].conversation_history,
                                  after |-> done.W.user_memories[User1].conversation_history])]
    /\ UNCHANGED <<connection, issued, paused>>

NextReplay == StartReplay \/ ApproveAgain

SpecReplay == InitReplay /\ [][NextReplay]_vars

\* the entries of the log that record the checkpoint of `state_hex`
RecordedFor(history, state_hex) ==
  SelectSeq(history, LAMBDA interaction :
    \E s \in PausedAt(state_hex) :
      interaction.question = s["question"] /\ interaction.query = s["query"])

\* every approve call on a token, the first as well as the later ones, is
\* accepted and executes the statement; one that ends well adds to the log
C30_ReplayAccepted ==
  last.op = "replay" =>
    \A k \in 1..Len(last.approvals) :
      LET a == last.approvals[k]
      IN  /\ a.response.status = 200
          /\ Len(EventsOf(a.trace, "execute_query")) = 1
          /\ a.state_hex \in issued
          /\ a.response.success =>
               Len(RecordedFor(a.after, a.state_hex)) > Len(RecordedFor(a.before, a.state_hex))

\* C30: a checkpoint is not invalidated by use: a second approve on the same
\* token is accepted, executes the statement again and records the interaction
\* again, so that after two approve calls the interaction has been recorded
\* twice (once per call).
C30_ReplayRecordsAgain ==
  last.op = "replay" =>
    /\ \A k \in 1..Len(last.approvals) :
         LET a == last.approvals[k]
         IN  /\ a.response.status = 200
             /\ Len(EventsOf(a.trace, "execute_query")) = 1
             /\ a.response.success => Len(a.after) = Len(a.before) + 1
    /\ (/\ Len(last.approvals) = 2
        /\ last.approvals[1].state_hex = last.approvals[2].state_hex
        /\ last.approvals[1].response.success
        /\ last.approvals[2].response.success)
       => Len(RecordedFor(last.approvals[2].after, last.approvals[2].state_hex)) = 2

(***************************************************************************)
(* Two users of one process.  User1 has a row in the table from an earlier *)
(* lifetime, User2 has none.  Interactions are recorded for either user    *)
(* and memory commands are sent for either user.  `last` keeps the number  *)
(* of interactions recorded and the command being answered.                *)
(***************************************************************************)
\* bound on the number of add_interaction calls
MaxCommandRecords == 4

User2 == <<"u","2">>

TwoUsers == {User1, User2}

MemoryCommands ==
  {Cmd_history, <<" ","/","H","i","s","t","o","r","y","\n">>, <<"/","S","U","M","M","A","R","Y">>,
   Cmd_entities \o <<" ">>, <<"/","U","s","e","r","s">>, <<" ","/","C","L","E","A","R"," ">>,
   <<"/","f","o","r","g","e","t">>, <<"/"," ","h","i","s","t","o","r","y">>, <<>>}

InitCommands ==
  /\ user_memories = [u \in TwoUsers |-> NoMemory]
  /\ rows = [u \in TwoUsers |-> IF u = User1 THEN SeedRows[User1] ELSE NoRow]
  /\ connection = TRUE
  /\ clock = SeedClock
  /\ issued = {}
  /\ paused = {}
  /\ last = [op |-> "process start", recorded |-> 0]

\* memory_manager.get_user_memory(username).add_interaction(...)
RecordForCommands ==
  \E username \in TwoUsers,
     r \in {[question |-> Q_top_student, query |-> R_select, result |-> Rows_alice,
             answer |-> <<"A","l">>]} :
    /\ last.recorded < MaxCommandRecords
    /\ \E W \in {add_interaction(get_user_memory(World(<<>>, NoSql, FALSE), username),
                                 username, r.question, r.query, r.result, r.answer)} :
         /\ user_memories' = W.user_memories
         /\ rows' = W.rows
         /\ clock' = W.clock
    /\ last' = [op |-> "recordInteraction", recorded |-> last.recorded + 1]
    /\ UNCHANGED <<connection, issued, paused>>

\* POST /memory/command
Command ==
  \E username \in TwoUsers, command \in MemoryCommands :
    /\ \E done \in {handle_memory_command(World(<<>>, NoSql, FALSE), username, command)} :
         /\ user_memories' = done.W.user_memories
         /\ rows' = done.W.rows
         /\ clock' = done.W.clock
         /\ last' = [op |-> "command", recorded |-> last.recorded, username |-> username,
                     command |-> command, response |-> done.response]
    /\ UNCHANGED <<connection, issued, paused>>

NextCommands == RecordForCommands \/ Command

SpecCommands == InitCommands /\ [][NextCommands]_vars

ValidCommands == {Cmd_history, Cmd_clear, Cmd_entities, Cmd_summary, Cmd_users}

\* the command as it is matched: trimmed, in lower case
Matched(command) == lower(strip(command))

\* C31: commands are matched ignoring case and surrounding whitespace;
\* /history, /summary, /entities and /users leave the log, entity index and
\* pattern index of every user as they were; /history and /summary return the
\* same data, with the total interaction count and the last 5 interactions;
\* any other command but /clear returns success = false with the list of valid
\* commands and changes no Memory Record.
C31_MemoryCommands ==
  [][last'.op = "command" =>
       \A answered \in {last'} :
         LET command == Matched(answered.command)
             history == MemoryOf(answered.username).conversation_history
         IN  /\ command \in ValidCommands <=> answered.response.success
             /\ command \in ValidCommands \ {Cmd_clear} =>
                  \A u \in TwoUsers : IndexesOf(u)' = IndexesOf(u)
             /\ command \in {Cmd_history, Cmd_summary} =>
                  /\ answered.response.data.total_interactions = Len(history)
                  /\ answered.response.data.recent_interactions = LastN(history, 5)
                  /\ Len(answered.response.data.recent_interactions) <= 5
                  /\ \A other \in {Cmd_history, Cmd_summary} :
                       handle_memory_command(World(<<>>, NoSql, FALSE), answered.username,
                                             other).response.data
                       = answered.response.data
             /\ command \notin ValidCommands =>
                  /\ \A valid \in ValidCommands : Contains(answered.response.message, valid)
                  /\ user_memories' = user_memories
                  /\ rows' = rows]_vars

\* /History with whitespace around it was answered for a user with six
\* interactions in the log
C31_Witness ==
  /\ last.op = "command"
  /\ last.command = <<" ","/","H","i","s","t","o","r","y","\n">>
  /\ last.response.success
  /\ last.response.data.total_interactions = 6
  /\ Len(last.response.data.recent_interactions) = 5

(***************************************************************************)
(* One workflow from start to approve: a start, regenerate calls on the    *)
(* checkpoint returned last, then one approve of that checkpoint.  `last`  *)
(* keeps the question submitted to start, the chain of checkpoints (each   *)
(* with the feedback of the request that produced it) and the approve call.*)
(***************************************************************************)
\* bound on the number of regenerate calls of the workflow
MaxCycles == 2

CycleQuestions == {Q_her, Q_seed}

InitCycles ==
  /\ user_memories = [u \in Usernames |-> NoMemory]
  /\ rows = SeedRows
  /\ connection = TRUE
  /\ clock = SeedClock
  /\ issued = {}
  /\ paused = {}
  /\ last = [op |-> "workflow", started |-> FALSE, regenerated |-> 0, chain |-> <<>>,
             approved |-> FALSE]

\* what a handler of the workflow leaves in the process and with the caller
CycleDone(done) ==
  /\ user_memories' = done.W.user_memories
  /\ rows' = done.W.rows
  /\ clock' = done.W.clock
  /\ issued' = IF done.pickled # NoState THEN issued \cup {done.response.state_hex} ELSE issued
  /\ paused' = IF done.pickled # NoState
               THEN paused \cup {[state_hex |-> done.response.state_hex, state |-> done.pickled]}
               ELSE paused
  /\ UNCHANGED connection

\* the chain with the checkpoint of `done`, if it returned one
Chained(chain, done, feedback) ==
  IF done.pickled # NoState
  THEN Append(chain, [state_hex |-> done.response.state_hex, state |-> done.pickled,
                      feedback |-> feedback])
  ELSE chain

\* start: POST /query
StartCycle ==
  \E username \in Usernames, question \in CycleQuestions, intent \in ClassifyOutcomes,
     text \in TextOutcomes :
    /\ ~last.started
    /\ \E done \in {process_query(World(<<intent, text>>, NoSql, FALSE), username, question)} :
         /\ CycleDone(done)
         /\ last' = [op |-> "workflow", started |-> TRUE, question |-> question,
                     regenerated |-> 0, chain |-> Chained(<<>>, done, PyNone),
                     approved |-> FALSE]

\* regenerate: POST /query/regenerate on the checkpoint returned last
RegenerateCycle ==
  \E feedback \in Feedbacks, text \in TextOutcomes :
    /\ last.chain # <<>>
    /\ ~last.approved
    /\ last.regenerated < MaxCycles
    /\ \E done \in {regenerate_endpoint(World(<<text>>, NoSql, FALSE),
                                        last.chain[Len(last.chain)].state_hex, feedback)} :
         /\ CycleDone(done)
         /\ last' = [last EXCEPT !.regenerated = @ + 1,
                                 !.chain = Chained(@, done, feedback)]

\* approve: POST /query/approve of the checkpoint returned last
ApproveCycle ==
  \E feedback \in Feedbacks, sql \in SqlOutcomes, text \in TextOutcomes :
    /\ last.chain # <<>>
    /\ ~last.approved
    /\ \E done \in {approve_and_execute_query(World(<<text>>, sql, FALSE),
                                              last.chain[Len(last.chain)].state_hex, feedback)} :
         /\ CycleDone(done)
         /\ last' = [op |-> "workflow", started |-> TRUE, question |-> last.question,
                     regenerated |-> last.regenerated, chain |-> last.chain, approved |-> TRUE,
                     feedback |-> feedback, response |-> done.response, trace |-> done.W.trace,
                     before |-> MemoryOf(User1).conversation_history,
                     after |-> done.W.user_memories[User1].conversation_history]

NextCycles == StartCycle \/ RegenerateCycle \/ ApproveCycle

SpecCycles == InitCycles /\ [][NextCycles]_vars

\* the approve of the workflow ended well
CycleApproved == last.op = "workflow" /\ last.approved /\ last.response.status = 200
                 /\ last.response.success

\* C32: the question of the interaction that approve records is the question
\* submitted to start (letter case aside), after any number of regenerate
\* cycles.
C32_OriginalQuestionRecorded ==
  CycleApproved =>
    /\ Len(last.after) > Len(last.before)
    /\ \A i \in (Len(last.before) + 1)..Len(last.after) :
         lower(last.after[i].question) = lower(last.question)

\* C32 without a feedback fragment: every regenerate of the workflow had empty
\* or absent feedback
C32_WithoutFeedback ==
  (CycleApproved /\ \A k \in 1..Len(last.chain) : ~Truthy(last.chain[k].feedback)) =>
    /\ Len(last.after) > Len(last.before)
    /\ \A i \in (Len(last.before) + 1)..Len(last.after) :
         last.after[i].question = lower(last.question)

\* the question regenerate builds from the question of a checkpoint
Appended(question, feedback) ==
  IF Truthy(feedback) THEN strip(question) \o <<" ", "(">> \o strip(feedback) \o <<")">>
  ELSE question

\* C33: in a chain of regenerate calls, the feedback field of each checkpoint
\* holds only the feedback of the call that produced it, while its question is
\* the question of the checkpoint before with that feedback appended in
\* parentheses; after two calls with feedback f1 and f2 the question is
\* "<q> (f1) (f2)" and the feedback field is f2.
C33_ChainedRegeneration ==
  last.op = "workflow" =>
    /\ \A k \in 2..Len(last.chain) :
         /\ last.chain[k].state["feedback"] = OrEmpty(last.chain[k].feedback)
         /\ last.chain[k].state["question"] =
              Appended(last.chain[k - 1].state["question"], last.chain[k].feedback)
    /\ (/\ Len(last.chain) = 3
        /\ Truthy(last.chain[2].feedback) /\ strip(last.chain[2].feedback) # <<>>
        /\ Truthy(last.chain[3].feedback) /\ strip(last.chain[3].feedback) # <<>>) =>
         /\ last.chain[3].state["question"] =
              strip(last.chain[1].state["question"])
                \o <<" ", "(">> \o strip(last.chain[2].feedback) \o <<")">>
                \o <<" ", "(">> \o strip(last.chain[3].feedback) \o <<")">>
         /\ last.chain[3].state["feedback"] = last.chain[3].feedback

\* two regenerate calls in a row, each with feedback text
C33_Witness ==
  /\ last.op = "workflow"
  /\ Len(last.chain) = 3
  /\ strip(OrEmpty(last.chain[2].feedback)) # <<>>
  /\ strip(OrEmpty(last.chain[3].feedback)) # <<>>

\* C34: approve uses the feedback of its request when that is non-empty and the
\* feedback stored in the checkpoint otherwise; in both cases the query executed
\* is the query of the checkpoint, and no query is synthesized.
C34_ApproveFeedbackOverride ==
  (last.op = "workflow" /\ last.approved /\ last.response.status = 200) =>
    LET s == last.chain[Len(last.chain)].state
        used == IF Truthy(last.feedback) THEN last.feedback ELSE Get(s, "feedback", <<>>)
    IN /\ "write_query" \notin {NodesOf(last.trace)[i] : i \in DOMAIN NodesOf(last.trace)}
       /\ \A i \in DOMAIN last.trace :
            /\ last.trace[i].ev = "llm" =>
                 /\ last.trace[i].kind = "generate_answer"
                 /\ last.trace[i].feedback = used
                 /\ last.trace[i].query = s["query"]
            /\ last.trace[i].ev = "execute_query" => last.trace[i].query = s["query"]
       /\ Len(EventsOf(last.trace, "execute_query")) = 1
       /\ Len(EventsOf(last.trace, "llm")) = 1
       /\ last.response.query = s["query"]

\* an approve without feedback of a checkpoint that a regenerate with feedback
\* returned
C34_Witness ==
  /\ CycleApproved
  /\ ~Truthy(last.feedback)
  /\ Truthy(Get(last.chain[Len(last.chain)].state, "feedback", <<>>))

\* an approve with feedback of a checkpoint that holds another feedback
C34_WitnessOverride ==
  /\ CycleApproved
  /\ Truthy(last.feedback)
  /\ Get(last.chain[Len(last.chain)].state, "feedback", <<>>) # last.feedback

(***************************************************************************)
(* Workflows of two users at once.  Every route is one step of the event   *)
(* loop; the steps of the two users interleave freely.  `last` names the   *)
(* user the step was performed for (for approve and regenerate, the        *)
(* username of the checkpoint) and counts the steps.                       *)
(***************************************************************************)
\* bound on the number of requests of the two users together
MaxUserSteps == 4

InitUsers ==
  /\ user_memories = [u \in TwoUsers |-> NoMemory]
  /\ rows = [u \in TwoUsers |-> IF u = User1 THEN SeedRows[User1] ELSE NoRow]
  /\ connection = TRUE
  /\ clock = SeedClock
  /\ issued = {}
  /\ paused = {}
  /\ last = [op |-> "users", steps |-> 0]

\* the step `op` performed for `username` ended as `done`
UserStep(op, username, done) ==
  /\ last.steps < MaxUserSteps
  /\ CycleDone(done)
  /\ last' = [op |-> op, steps |-> last.steps + 1, username |-> username]

StartUser ==
  \E username \in TwoUsers, intent \in ClassifyOutcomes, text \in TextOutcomes :
    UserStep("start", username,
             process_query(World(<<intent, text>>, NoSql, FALSE), username, Q_her))

ApproveUser ==
  \E checkpoint \in paused, feedback \in ApprovalFeedbacks, text \in TextOutcomes :
    UserStep("approve", checkpoint.state["username"],
             approve_and_execute_query(World(<<text>>, [ok |-> TRUE, text |-> Rows_al], FALSE),
                                       checkpoint.state_hex, feedback))

RegenerateUser ==
  \E checkpoint \in paused, feedback \in ApprovalFeedbacks, text \in TextOutcomes :
    UserStep("regenerate", checkpoint.state["username"],
             regenerate_endpoint(World(<<text>>, NoSql, FALSE), checkpoint.state_hex, feedback))

CommandUser ==
  \E username \in TwoUsers, command \in {Cmd_clear, Cmd_history, Cmd_users} :
    UserStep("command", username,
             handle_memory_command(World(<<>>, NoSql, FALSE), username, command))

NextUsers == StartUser \/ ApproveUser \/ RegenerateUser \/ CommandUser

SpecUsers == InitUsers /\ [][NextUsers]_vars

\* C35: a start, approve, regenerate or memory command (clear included) performed
\* for one username leaves the Memory Record of every other username as it was,
\* in the cache and in the table, whatever the interleaving of the two users'
\* workflows.
C35_PerUserIsolation ==
  [][\A other \in TwoUsers :
       other # last'.username =>
         /\ user_memories'[other] = user_memories[other]
         /\ rows'[other] = rows[other]]_vars

\* a clear for one user while the other user has a cached record, and a row,
\* with an interaction in them
C35_Witness ==
  /\ last.op = "command"
  /\ ~user_memories[last.username].present
  /\ \E other \in TwoUsers \ {last.username} :
       /\ user_memories[other].present
       /\ user_memories[other].conversation_history # <<>>
       /\ rows[other].present
       /\ rows[other].conversation_history # <<>>

\* an approve for one user that recorded while the other user has a record
C35_WitnessApprove ==
  /\ last.op = "approve"
  /\ user_memories[last.username].present
  /\ user_memories[last.username].conversation_history # <<>>
  /\ \E other \in TwoUsers \ {last.username} :
       /\ user_memories[other].present
       /\ user_memories[other].conversation_history # <<>>

\* the three collections of the row of `username`; no row is an empty record
DurableCopy(username) ==
  IF rows[username].present
  THEN [conversation_history |-> rows[username].conversation_history,
        entity_memory |-> rows[username].entity_memory,
        question_patterns |-> rows[username].question_patterns]
  ELSE [conversation_history |-> <<>>, entity_memory |-> <<>>, question_patterns |-> <<>>]

\* the step was a /clear
Cleared == last.op = "command" /\ Matched(last.command) = Cmd_clear

\* C36: with the store reachable and the operations of a user one after another,
\* after every recordInteraction and every clear the row of the user holds the
\* same conversation log, entity index and pattern index as the in-memory
\* record; after a clear all three are empty.
C36_DurableCopyEqualsRecord ==
  (last.op = "recordInteraction" \/ Cleared) =>
    /\ \A username \in TwoUsers : IndexesOf(username) = DurableCopy(username)
    /\ Cleared =>
         DurableCopy(last.username) =
           [conversation_history |-> <<>>, entity_memory |-> <<>>, question_patterns |-> <<>>]

\* a recordInteraction that left entities and patterns in a cached record
C36_Witness ==
  /\ last.op = "recordInteraction"
  /\ \E username \in TwoUsers :
       /\ user_memories[username].present
       /\ Len(user_memories[username].conversation_history) >= 2
       /\ user_memories[username].entity_memory # <<>>
       /\ user_memories[username].question_patterns # <<>>

\* a clear of a user whose row held interactions
C36_WitnessClear ==
  /\ Cleared
  /\ rows[last.username].present
  /\ rows[last.username].conversation_history = <<>>
  /\ rows[last.username].updated_at > SeedClock

\* the same after the log has evicted interactions: the row holds the bounded
\* log, not the interactions evicted
C36_AfterEviction ==
  \A username \in Usernames :
    (last.op = "recordInteraction" /\ last.recorded # <<>>) =>
      /\ rows[username].present
      /\ rows[username].conversation_history = user_memories[username].conversation_history
      /\ rows[username].entity_memory = user_memories[username].entity_memory
      /\ rows[username].question_patterns = user_memories[username].question_patterns

\* C37: a question that contains none of the pronouns as a whole word and is not
\* a what+marks/grade question comes back unchanged, whatever the history.
C37_UnchangedWithoutPronoun ==
  (/\ last.op = "resolveReferences"
   /\ PronounsIn(last.question) = {}
   /\ ~AsksForMarks(last.question))
  => last.resolved = last.question

\* C37 for the questions in which no pronoun occurs even inside a word
C37_UnchangedWithoutOccurrence ==
  (/\ last.op = "resolveReferences"
   /\ \A i \in 1..Len(pronouns) : ~Contains(lower(last.question), pronouns[i])
   /\ ~AsksForMarks(last.question))
  => last.resolved = last.question

\* C38: when the result of the most recent interaction is not a list of tuples
\* (a chat turn, an execution error, no interaction at all) no pronoun of the
\* question is substituted, even if an earlier interaction has a tabular result:
\* the question comes back as it was, or as the marks rewrite.
C38_OnlyMostRecentConsulted ==
  last.op = "resolveReferences" =>
    LET m == user_memories[User1]
    IN  ~MostRecentName(m.conversation_history).ok =>
          \/ last.resolved = last.question
          \/ /\ AsksForMarks(last.question)
             /\ \E i \in 1..Len(m.entity_memory) :
                  last.resolved = MarksQuestion(m.entity_memory[i].key)

\* a question with a pronoun, asked after a chat turn or a failed statement that
\* follows an interaction with a tabular result
C38_Witness ==
  /\ last.op = "resolveReferences"
  /\ last.question = Q_her_email
  /\ last.resolved = Q_her_email
  /\ Len(last.recorded) >= 2
  /\ ~MostRecentName(user_memories[User1].conversation_history).ok
  /\ MostRecentName(SubSeq(user_memories[User1].conversation_history, 1,
                           Len(user_memories[User1].conversation_history) - 1)).ok

\* the same after a failed statement
C38_WitnessError ==
  /\ C38_Witness
  /\ LastRecorded(last).result = Res_failed

\* s is an initial part of t
IsPrefix(s, t) == Len(s) <= Len(t) /\ SubSeq(t, 1, Len(s)) = s

\* the pattern entries the recordings with `column` in their question leave
PatternEntries(recorded, column) ==
  LET matching == SelectSeq(recorded, LAMBDA r : Contains(lower(r.question), column))
  IN  [i \in 1..Len(matching) |-> [question |-> matching[i].question, query |-> matching[i].query]]

\* C39: with no clear in between, recordInteraction removes no entity key and no
\* pattern entry: the key set of the Entity Index and every pattern list only
\* grow, and the entities and pattern entries of an interaction stay when the
\* bounded log evicts it, so the indexes are not bounded by max_history.
C39_IndexesOnlyGrow ==
  /\ [][/\ \A i \in 1..Len(user_memories[User1].entity_memory) :
             DictHas(user_memories'[User1].entity_memory, user_memories[User1].entity_memory[i].key)
        /\ \A i \in 1..Len(user_memories[User1].question_patterns) :
             LET entry == user_memories[User1].question_patterns[i]
             IN  /\ DictHas(user_memories'[User1].question_patterns, entry.key)
                 /\ IsPrefix(entry.val,
                             DictGet(user_memories'[User1].question_patterns, entry.key, <<>>))]_vars
  /\ [](/\ \A i \in 1..Len(last.recorded) :
             last.recorded[i].result = Rows_al =>
               DictHas(user_memories[User1].entity_memory, <<"a","l">>)
        /\ DictGet(user_memories[User1].question_patterns, <<"i","d","_queries">>, <<>>)
             = PatternEntries(last.recorded, <<"i","d">>))

\* the log has evicted an interaction with a tabular result and holds none, and
\* the pattern list is longer than the log
C39_Witness ==
  /\ Len(last.recorded) > user_memories[User1].max_history
  /\ last.recorded[1].result = Rows_al
  /\ \A i \in 1..Len(user_memories[User1].conversation_history) :
       user_memories[User1].conversation_history[i].result = <<>>
  /\ DictHas(user_memories[User1].entity_memory, <<"a","l">>)
  /\ Len(DictGet(user_memories[User1].question_patterns, <<"i","d","_queries">>, <<>>))
       > user_memories[User1].max_history

=============================================================================
